---- MODULE Spec2Model ----
(***************************************************************************)
(* nak-base: the asynchronous inference pipeline.                          *)
(*                                                                         *)
(* The backend's upload_paper creates Paper / Version / File /             *)
(* InferenceTask rows and pushes one message per analysis task on the      *)
(* Redis list 'tasks'.  The worker's main loop pops messages with BLPOP,   *)
(* classifies them with parse_task_data and runs process_task, which walks *)
(* the task through PARSING, RAG and LLM and stores a Feedback row.        *)
(*                                                                         *)
(* process_task is split at its commits, its publish_notification calls    *)
(* and its calls to external services, so that the states in which a call  *)
(* is in flight, and a crash between two statements, are states of the     *)
(* model.  Every upload creates one row in each table, so the ids of the   *)
(* paper, version, file and task of one upload coincide.                   *)
(*                                                                         *)
(* Three specifications share the actions.  Spec has producers of every    *)
(* kind of message, crashes and restarts; its notifications are delivered  *)
(* and its generation backend answers with a JSON object or fails.         *)
(* SpecRun has uploads and their runs only, with publishes that can fail   *)
(* and every form of response.  SpecEnrich starts from every combination   *)
(* of mock mode, conference rule, parent paper and stored chunks.          *)
(*                                                                         *)
(* SpecLive is Spec without crashes, with weak fairness of the worker's    *)
(* steps.  SpecUpload splits upload_paper between the commit of the task   *)
(* and the push of its message, for two concurrent requests.               *)
(* SpecLineage commits the Paper and the Version of an upload in separate  *)
(* steps.                                                                  *)
(*                                                                         *)
(* The other specifications apply one function each to every argument of   *)
(* a bounded set and keep its result in 'ret': SpecPrompt                  *)
(* (build_analysis_prompt), SpecDiff (generate_diff_summary),              *)
(* SpecEmbedding (generate_embedding), SpecSearch                          *)
(* (semantic_search_chunks), SpecParse (the JSON extraction of             *)
(* call_ollama), SpecChunks (save_chunk_embeddings) and SpecTraverse       *)
(* (find_root_paper, find_all_descendant_papers, a loop pass at a time).   *)
(***************************************************************************)
EXTENDS Integers, Sequences, FiniteSets, TLC

\* ---------------------------------------------------------------- bounds
MaxTasks == 1      \* rows in inference_tasks (ids 1..MaxTasks)
MaxPushes == 1     \* messages pushed onto 'tasks' other than by upload_paper
MaxHits == 2       \* hits in one similarity search result
MaxLines == 2      \* lines of a text given to generate_diff_summary
MaxLength == 40    \* largest max_length given to generate_diff_summary
MaxExtraDim == 1   \* elements a backend's vector can have beyond embedding_dim
MaxChunks == 3     \* rows in embeddings given to semantic_search_chunks
MaxTopK == 2       \* largest top_k given to semantic_search_chunks
MaxSegments == 3   \* parts of one response_text of the generation backend
MaxChunkList == 3  \* chunks in one list given to save_chunk_embeddings
MaxPapers == 4     \* papers of the lineage uploads
MaxUploads == 2    \* upload requests made in two steps
MaxGraph == 3      \* papers of a graph given to the lineage traversals

\* ------------------------------------------------------ program constants
max_retries == 3
\* A related rule is listed in the prompt above 0.3, a related chunk above
\* 0.5 (in hundredths).
rule_similarity_threshold == 30
chunk_similarity_threshold == 50
\* generate_diff_summary's default max_length.
default_max_length == 3000
\* settings.embedding_dim, the dimension of the vector columns.
embedding_dim == 768

NULL == "NULL"

TaskIds == 1..MaxTasks

TaskStatus == {"PENDING", "PARSING", "RAG", "LLM", "COMPLETED", "ERROR"}

\* ------------------------------------------------------- parser responses
\* What the parsing service returns for a stored file: the text and the
\* chunk list.  chunk_index = -1 stands for a chunk without that key.
NoIndex == -1

ParserResponses ==
    { [text |-> "t", chunks |-> << >>],
      [text |-> "t", chunks |-> << [content |-> "a", chunk_index |-> 0],
                                   [content |-> " ", chunk_index |-> 1],
                                   [content |-> "b", chunk_index |-> NoIndex] >>] }

\* ------------------------------------------------------------- messages
\* A payload on the 'tasks' list.  fmt "json" is a JSON object, fmt "int" a
\* bare integer.  task_id = NoTaskId stands for an object without that key.
NoTaskId == 0

AnalysisPayload(t, job_type) ==
    [fmt |-> "json", type |-> NULL, task_id |-> t, job_type |-> job_type]

LegacyPayload(t) ==
    [fmt |-> "int", type |-> NULL, task_id |-> t, job_type |-> NULL]

DiagnosisPayload(t) ==
    [fmt |-> "json", type |-> "SYSTEM_DIAGNOSIS", task_id |-> t, job_type |-> NULL]

\* main's local data before the first BLPOP of the process has returned.
NoPayload ==
    [fmt |-> NULL, type |-> NULL, task_id |-> NoTaskId, job_type |-> NULL]

\* Payloads parse_task_data cannot classify: a JSON object with neither a
\* task_id nor the diagnosis type, and a text that is neither JSON nor an
\* integer.
MalformedPayloads ==
    { [fmt |-> "json", type |-> NULL, task_id |-> NoTaskId, job_type |-> NULL],
      [fmt |-> "text", type |-> NULL, task_id |-> NoTaskId, job_type |-> NULL] }

\* ------------------------------------------- generation backend responses
\* The keys the prompt asks for, and the one it asks for on a resubmission.
ResultKeys == {"summary", "typos", "suggestions"}
ImprovementsKey == "improvements_from_previous"

\* What a response can carry: a JSON object (with its keys), a JSON value
\* that is no object, or text that is no JSON.
Bodies ==
    { [kind |-> "object", keys |-> ResultKeys],
      [kind |-> "object", keys |-> ResultKeys \cup {ImprovementsKey}],
      [kind |-> "array", keys |-> {}],
      [kind |-> "text", keys |-> {}] }

\* response_text: the body inside a ```json fence, inside a bare ``` fence or
\* unfenced, with or without prose around it.
Responses == [fence : {"json", "plain", "none"}, prose : BOOLEAN, body : Bodies]

PlainObject ==
    [fence |-> "none", prose |-> FALSE, body |-> [kind |-> "object", keys |-> ResultKeys]]

NoResponse ==
    [fence |-> NULL, prose |-> FALSE, body |-> [kind |-> NULL, keys |-> {}]]

\* call_ollama's json_str: the inside of the fence; else the text from the
\* first "{" to the last "}"; else the whole response_text.
json_str(r) ==
    IF r.fence \in {"json", "plain"} THEN r.body
    ELSE IF r.body.kind = "object" THEN r.body
    ELSE IF r.prose THEN [kind |-> "text", keys |-> {}]
    ELSE r.body

\* What call_ollama returns.  is_dict tells whether the value has .get.
NoResult ==
    [from |-> NULL, is_dict |-> FALSE, keys |-> {}, summary |-> NULL, suggestions |-> NULL]

MockResult ==
    [from |-> "mock", is_dict |-> TRUE, keys |-> ResultKeys \cup {ImprovementsKey},
     summary |-> "mock", suggestions |-> "prompt"]

FallbackResult ==
    [from |-> "except", is_dict |-> TRUE, keys |-> ResultKeys,
     summary |-> "response_text", suggestions |-> "parse_note"]

json_loads(v) ==
    [from |-> "json.loads", is_dict |-> v.kind = "object", keys |-> v.keys,
     summary |-> IF "summary" \in v.keys THEN "llm" ELSE "",
     suggestions |-> IF "suggestions" \in v.keys THEN "llm" ELSE "[]"]

\* call_ollama after the request: parse the response, fall back on failure.
parse_response(r) ==
    IF json_str(r).kind = "text" THEN FallbackResult ELSE json_loads(json_str(r))

\* ------------------------------------------------------- enrichment sources
\* The parent paper of the paper being processed: whether parent_paper_id is
\* set, whether the parent has a version, whether that version has a
\* Feedback, what file it has, and what the parser answers for that file
\* ("error": the request fails).
ParentShapes ==
    { p \in [paper : BOOLEAN, version : BOOLEAN, feedback : BOOLEAN,
             file : {"none", "no_cache_path", "cached"},
             text : {"", "t", "u", "error"}] :
        /\ ~p.paper => ~p.version
        /\ ~p.version => (~p.feedback /\ p.file = "none")
        /\ p.file # "cached" <=> p.text = "" }

NoParent ==
    [paper |-> FALSE, version |-> FALSE, feedback |-> FALSE, file |-> "none", text |-> ""]

\* settings.mock_mode, the task's conference_rule_id, the conference_rules
\* table, the parent paper and whether other files have stored chunks.  A
\* conference_rule_id names an existing rule (foreign key, SET NULL).
Worlds ==
    { w \in [mock_mode : BOOLEAN, conference_rule_id : {NULL, "r1"},
             conference_rules : SUBSET {"r1"}, parent : ParentShapes,
             other_chunks : BOOLEAN] :
        w.conference_rule_id # NULL => w.conference_rule_id \in w.conference_rules }

DefaultWorld ==
    [mock_mode |-> FALSE, conference_rule_id |-> NULL, conference_rules |-> {},
     parent |-> NoParent, other_chunks |-> FALSE]

get_conference_context(w) ==
    IF w.conference_rule_id = NULL THEN {}
    ELSE IF w.conference_rule_id \notin w.conference_rules THEN {}
    ELSE {"name", "format_rules", "style_guide"}

get_previous_feedback_context(w) ==
    IF ~w.parent.paper THEN {}
    ELSE IF ~w.parent.version THEN {}
    ELSE IF ~w.parent.feedback THEN {}
    ELSE {"parent_title", "summary", "suggestions", "typos"}

\* The parent's text, "" when there is no parent, version or cached file or
\* when the parser request for it fails (the exception is swallowed).
get_parent_paper_text(w) ==
    IF ~w.parent.paper THEN ""
    ELSE IF ~w.parent.version THEN ""
    ELSE IF w.parent.file # "cached" THEN ""
    ELSE IF w.parent.text = "error" THEN ""
    ELSE w.parent.text

\* str.splitlines(keepends=True): the lines of a text, each with its "\n".
RECURSIVE splitlines(_)
splitlines(s) ==
    IF s = "" THEN << >>
    ELSE LET n == CHOOSE i \in 1..Len(s) :
                      /\ SubSeq(s, i, i) = "\n" \/ i = Len(s)
                      /\ \A j \in 1..(i - 1) : SubSeq(s, j, j) # "\n"
         IN  << SubSeq(s, 1, n) >> \o splitlines(SubSeq(s, n + 1, Len(s)))

\* str.startswith and str.join.
startswith(s, prefix) ==
    Len(s) >= Len(prefix) /\ SubSeq(s, 1, Len(prefix)) = prefix

RECURSIVE join(_, _)
join(sep, lines) ==
    IF lines = << >> THEN ""
    ELSE IF Len(lines) = 1 THEN lines[1]
    ELSE lines[1] \o sep \o join(sep, Tail(lines))

\* difflib.SequenceMatcher.find_longest_match on a[alo..ahi-1], b[blo..bhi-1]
\* (no junk): the longest block a[i..i+k-1] = b[j..j+k-1], of those the one
\* starting earliest in a, of those the one starting earliest in b;
\* << alo, blo, 0 >> when no line matches.
find_longest_match(a, b, alo, ahi, blo, bhi) ==
    LET blocks == { m \in { << i, j, k >> : i \in alo..(ahi - 1), j \in blo..(bhi - 1),
                                          k \in 1..Len(a) } :
                      /\ m[1] + m[3] <= ahi
                      /\ m[2] + m[3] <= bhi
                      /\ \A d \in 0..(m[3] - 1) : a[m[1] + d] = b[m[2] + d] }
    IN  IF blocks = {} THEN << alo, blo, 0 >>
        ELSE CHOOSE m \in blocks : \A o \in blocks :
                 \/ m[3] > o[3]
                 \/ m[3] = o[3] /\ m[1] < o[1]
                 \/ m[3] = o[3] /\ m[1] = o[1] /\ m[2] <= o[2]

\* The lines difflib.unified_diff yields for the opcodes of a[alo..ahi-1]
\* against b[blo..bhi-1]: around the longest match, ' ' before a line of the
\* match; where nothing matches, '-' before the lines of a, then '+' before
\* the lines of b.
RECURSIVE opcode_lines(_, _, _, _, _, _)
opcode_lines(a, b, alo, ahi, blo, bhi) ==
    LET m == find_longest_match(a, b, alo, ahi, blo, bhi)
    IN  IF m[3] = 0
        THEN [i \in 1..(ahi - alo) |-> "-" \o a[alo + i - 1]]
             \o [j \in 1..(bhi - blo) |-> "+" \o b[blo + j - 1]]
        ELSE opcode_lines(a, b, alo, m[1], blo, m[2])
             \o [d \in 1..m[3] |-> " " \o a[m[1] + d - 1]]
             \o opcode_lines(a, b, m[1] + m[3], ahi, m[2] + m[3], bhi)

\* difflib._format_range_unified for the lines start+1 .. stop.
format_range_unified(start, stop) ==
    IF stop - start = 1 THEN ToString(start + 1)
    ELSE IF stop - start = 0 THEN ToString(start) \o ",0"
    ELSE ToString(start + 1) \o "," \o ToString(stop - start)

\* The names given to unified_diff (five characters each, as in the source)
\* and the text appended to a cut diff (27 characters, as in the source).
fromfile == "<old>"
tofile == "<new>"
truncation_marker == "\n\n... (diff text truncated)"

\* difflib.unified_diff(a, b, fromfile, tofile, lineterm=''): nothing for
\* equal lists; else the two file lines and, for texts of at most three lines
\* (the context is three lines), one hunk over all lines.
unified_diff(a, b) ==
    IF a = b THEN << >>
    ELSE << "--- " \o fromfile, "+++ " \o tofile,
            "@@ -" \o format_range_unified(0, Len(a))
                  \o " +" \o format_range_unified(0, Len(b)) \o " @@" >>
         \o opcode_lines(a, b, 1, Len(a) + 1, 1, Len(b) + 1)

\* generate_diff_summary's diff_lines: the header lines and the added and
\* removed lines of the diff; context lines are left out.
diff_lines(old_text, new_text) ==
    SelectSeq(unified_diff(splitlines(old_text), splitlines(new_text)),
              LAMBDA line : \/ startswith(line, "---")
                            \/ startswith(line, "+++")
                            \/ startswith(line, "@@")
                            \/ startswith(line, "+")
                            \/ startswith(line, "-"))

\* generate_diff_summary that cuts a long diff without saying so.
generate_diff_summary_silent_cut(old_text, new_text, max_length) ==
    IF old_text = "" \/ new_text = "" THEN ""
    ELSE LET diff_text == join("\n", diff_lines(old_text, new_text))
         IN  IF diff_lines(old_text, new_text) = << >> THEN ""
             ELSE IF Len(diff_text) > max_length
                  THEN SubSeq(diff_text, 1, max_length)
                  ELSE diff_text

\* generate_diff_summary that diffs whatever it is given, an empty text too.
generate_diff_summary_no_empty_test(old_text, new_text, max_length) ==
    LET diff_text == join("\n", diff_lines(old_text, new_text))
    IN  IF diff_lines(old_text, new_text) = << >> THEN ""
        ELSE IF Len(diff_text) > max_length
             THEN SubSeq(diff_text, 1, max_length) \o truncation_marker
             ELSE diff_text

\* worker.generate_diff_summary: "" when a text is empty or nothing differs,
\* else the diff lines joined by "\n", cut to max_length characters and
\* followed by the marker when longer.
generate_diff_summary(old_text, new_text, max_length) ==
    IF old_text = "" \/ new_text = "" THEN ""
    ELSE LET diff_text == join("\n", diff_lines(old_text, new_text))
         IN  IF diff_lines(old_text, new_text) = << >> THEN ""
             ELSE IF Len(diff_text) > max_length
                  THEN SubSeq(diff_text, 1, max_length) \o truncation_marker
                  ELSE diff_text

\* process_task's parse_result before call_parser has returned.
NoParse == [text |-> "NoParse", chunks |-> << >>]

NoContext ==
    [conference_context |-> {}, previous_feedback |-> {},
     related_chunks |-> FALSE, related_rules |-> FALSE, diff_text |-> ""]

VARIABLES
    tasks,          \* inference_tasks: task_id -> row
    papers,         \* papers: paper_id -> row
    files,          \* files: version_id -> primary file row
    feedbacks,      \* feedbacks: version_id -> its rows, in insertion order
    embeddings,     \* embeddings: file_id -> its rows, in insertion order
    queue,          \* the Redis list 'tasks'
    pushes,         \* number of messages pushed other than by upload_paper
    pc,             \* the worker's position in main / process_task
    data,           \* main's local data: the payload of the last BLPOP
    cur,            \* task_id argument of the current / last process_task call
    exc,            \* the exception being handled, NULL when none
    parse_result,   \* process_task's local parse_result, NULL before the call
    run_committed,  \* <<task_id, status>> committed by the current process_task call
    run_published,  \* <<task_id, status>> published by the current process_task call
    channel,        \* of these, the ones delivered on 'task_notifications'
    context,        \* process_task's conference, prior-feedback, RAG and diff context
    response,       \* call_ollama's response_text
    result,         \* process_task's local result
    world,          \* settings and the rows of other papers, rules and files
    session,        \* the database session of process_task: "clean" after a
                    \* commit, rollback or close, "begun" once it has run SQL
    args,           \* the arguments of the function applied on its own
    ret,            \* what that function returned
    lineage,        \* papers with their parent links and version numbers
    uploads         \* upload requests by task_id: is_reference and how far
                    \* the request has come

vars == << tasks, papers, files, feedbacks, embeddings, queue, pushes, pc, data,
           cur, exc, parse_result, run_committed, run_published, channel,
           context, response, result, world, session, args, ret, lineage, uploads >>

db == << tasks, papers, files, feedbacks, embeddings >>
run == << data, cur, exc, parse_result, run_committed, run_published, channel,
         context, response, result, session >>
locals == << context, response, result >>
pure == << args, ret, lineage, uploads >>
program == << tasks, papers, files, feedbacks, embeddings, queue, pushes, pc, data,
             cur, exc, parse_result, run_committed, run_published, channel,
             context, response, result, world, session >>

\* No function is being applied on its own; nothing has been returned yet.
NoArgs == "NoArgs"
NoReturn == [done |-> FALSE, value |-> "NoReturn"]
Return(v) == [done |-> TRUE, value |-> v]

\* ------------------------------------------------------------ helpers
NewTask(version_id, status) ==
    [ version_id    |-> version_id,
      status        |-> status,
      retry_count   |-> 0,
      error_message |-> NULL,
      started_at    |-> NULL,
      completed_at  |-> NULL ]

NextId == Cardinality(DOMAIN tasks) + 1

InQueue(t) ==
    \E i \in DOMAIN queue :
        /\ queue[i].task_id = t
        /\ queue[i].type # "SYSTEM_DIAGNOSIS"
        /\ queue[i].job_type # "REFERENCE_ONLY"

\* ---------------------------------------------------------------- Init
\* The database is empty, or it already holds one PENDING task whose
\* version's file has no cache_path (the column is nullable: a file kept
\* only on Drive).  The list 'tasks' is empty and the worker waits in BLPOP.
Init ==
    /\ \E seeded \in BOOLEAN :
         IF seeded
         THEN /\ tasks = (1 :> NewTask(1, "PENDING"))
              /\ papers = (1 :> [status |-> "PROCESSING"])
              /\ files = (1 :> [cache_path |-> NULL,
                                parser_response |-> [text |-> "t", chunks |-> << >>]])
              /\ feedbacks = (1 :> << >>)
              /\ embeddings = (1 :> << >>)
         ELSE /\ tasks = << >>
              /\ papers = << >>
              /\ files = << >>
              /\ feedbacks = << >>
              /\ embeddings = << >>
    /\ queue = << >>
    /\ pushes = 0
    /\ pc = "idle"
    /\ data = NoPayload
    /\ cur = 0
    /\ exc = NULL
    /\ parse_result = NoParse
    /\ run_committed = << >>
    /\ run_published = << >>
    /\ channel = << >>
    /\ context = NoContext
    /\ response = NoResponse
    /\ result = NoResult
    /\ world = DefaultWorld
    /\ session = "clean"
    /\ args = NoArgs
    /\ ret = NoReturn
    /\ lineage = << >>
    /\ uploads = << >>

\* ------------------------------------------------------------ producers
\* queue_service.push_task_with_payload: RPUSH of the JSON payload.
push_task_with_payload(t, job_type) ==
    queue' = Append(queue, AnalysisPayload(t, job_type))
    /\ UNCHANGED pure

\* papers.upload_paper: Paper, Version, File and InferenceTask are committed
\* one after the other, then the message is pushed unless is_reference.
\* resp is what the parsing service answers for the stored file.
upload_paper(is_reference, resp) ==
    /\ NextId <= MaxTasks
    /\ LET n == NextId IN
         /\ papers' = papers @@
              (n :> [status |-> IF is_reference THEN "COMPLETED" ELSE "PROCESSING"])
         /\ files' = files @@
              (n :> [cache_path |-> "path", parser_response |-> resp])
         /\ tasks' = tasks @@
              (n :> NewTask(n, IF is_reference THEN "COMPLETED" ELSE "PENDING"))
         /\ feedbacks' = feedbacks @@ (n :> << >>)
         /\ embeddings' = embeddings @@ (n :> << >>)
         /\ IF is_reference
            THEN queue' = queue
            ELSE push_task_with_payload(n, "ANALYSIS")
    /\ UNCHANGED << pushes, pc, run, world >>
    /\ UNCHANGED pure

\* queue_service.push_task: RPUSH of the bare task id (legacy payload).
push_task(t) ==
    /\ pushes < MaxPushes
    /\ queue' = Append(queue, LegacyPayload(t))
    /\ pushes' = pushes + 1
    /\ UNCHANGED << db, pc, run, world >>
    /\ UNCHANGED pure

\* push_task_with_payload called with job_type REFERENCE_ONLY.
push_reference_only(t) ==
    /\ pushes < MaxPushes
    /\ push_task_with_payload(t, "REFERENCE_ONLY")
    /\ pushes' = pushes + 1
    /\ UNCHANGED << db, pc, run, world >>
    /\ UNCHANGED pure

\* run_diagnosis.check_redis_and_submit_task: RPUSH of a SYSTEM_DIAGNOSIS
\* message that carries a task_id of its own.
check_redis_and_submit_task(t) ==
    /\ pushes < MaxPushes
    /\ queue' = Append(queue, DiagnosisPayload(t))
    /\ pushes' = pushes + 1
    /\ UNCHANGED << db, pc, run, world >>
    /\ UNCHANGED pure

\* Any client of the Redis server: RPUSH of a payload that is no task message.
push_malformed(m) ==
    /\ pushes < MaxPushes
    /\ queue' = Append(queue, m)
    /\ pushes' = pushes + 1
    /\ UNCHANGED << db, pc, run, world >>
    /\ UNCHANGED pure

\* ------------------------------------------------------ worker: main loop
\* parse_task_data without its outer except: a payload that is neither a task
\* message nor an integer is handed on as a regular task without a task_id.
parse_task_data_unguarded(m) ==
    IF m.fmt = "json"
    THEN IF m.type = "SYSTEM_DIAGNOSIS" THEN << "SYSTEM_DIAGNOSIS", m >>
         ELSE IF m.job_type = "REFERENCE_ONLY"
              THEN << "REFERENCE_ONLY", m >>
              ELSE << "REGULAR", m >>
    ELSE << "REGULAR", [task_id |-> m.task_id, job_type |-> "ANALYSIS"] >>

\* parse_task_data without the int(decoded) fallback: only JSON objects are
\* task messages.
parse_task_data_json_only(m) ==
    IF m.fmt = "json"
    THEN IF m.type = "SYSTEM_DIAGNOSIS" THEN << "SYSTEM_DIAGNOSIS", m >>
         ELSE IF m.task_id # NoTaskId
              THEN IF m.job_type = "REFERENCE_ONLY"
                   THEN << "REFERENCE_ONLY", m >>
                   ELSE << "REGULAR", m >>
              ELSE << NULL, NULL >>
    ELSE << NULL, NULL >>

\* parse_task_data testing "task_id" in task_data before the type.
parse_task_data_task_id_first(m) ==
    IF m.fmt = "json"
    THEN IF m.task_id # NoTaskId
         THEN IF m.job_type = "REFERENCE_ONLY"
              THEN << "REFERENCE_ONLY", m >>
              ELSE << "REGULAR", m >>
         ELSE IF m.type = "SYSTEM_DIAGNOSIS" THEN << "SYSTEM_DIAGNOSIS", m >>
              ELSE << NULL, NULL >>
    ELSE IF m.fmt = "int"
         THEN << "REGULAR", [task_id |-> m.task_id, job_type |-> "ANALYSIS"] >>
         ELSE << NULL, NULL >>

\* parse_task_data without the REFERENCE_ONLY kind: every object with a
\* task_id is a regular task.
parse_task_data_no_reference(m) ==
    IF m.fmt = "json"
    THEN IF m.type = "SYSTEM_DIAGNOSIS" THEN << "SYSTEM_DIAGNOSIS", m >>
         ELSE IF m.task_id # NoTaskId
              THEN << "REGULAR", m >>
              ELSE << NULL, NULL >>
    ELSE IF m.fmt = "int"
         THEN << "REGULAR", [task_id |-> m.task_id, job_type |-> "ANALYSIS"] >>
         ELSE << NULL, NULL >>

\* worker.parse_task_data: the kind of a payload and its task data.
parse_task_data(m) ==
    IF m.fmt = "json"
    THEN IF m.type = "SYSTEM_DIAGNOSIS" THEN << "SYSTEM_DIAGNOSIS", m >>
         ELSE IF m.task_id # NoTaskId
              THEN IF m.job_type = "REFERENCE_ONLY"
                   THEN << "REFERENCE_ONLY", m >>
                   ELSE << "REGULAR", m >>
              ELSE << NULL, NULL >>
    ELSE IF m.fmt = "int"
         THEN << "REGULAR", [task_id |-> m.task_id, job_type |-> "ANALYSIS"] >>
         ELSE << NULL, NULL >>

\* main: BLPOP returned a message (the head of the list is removed by the pop).
\* A dequeue from the tail of the list.
brpop(kind) ==
    /\ pc = "idle"
    /\ queue # << >>
    /\ parse_task_data(queue[Len(queue)])[1] = kind
    /\ queue' = SubSeq(queue, 1, Len(queue) - 1)
    /\ data' = queue[Len(queue)]

blpop(kind) ==
    /\ pc = "idle"
    /\ queue # << >>
    /\ parse_task_data(Head(queue))[1] = kind
    /\ queue' = Tail(queue)
    /\ data' = Head(queue)

\* main: a SYSTEM_DIAGNOSIS message goes to process_diagnosis_task, which
\* touches neither the database nor the queue.
main_diagnosis ==
    /\ blpop("SYSTEM_DIAGNOSIS")
    /\ cur' = 0
    /\ UNCHANGED << db, pushes, pc, world, channel, locals, exc, parse_result, run_committed, run_published >>
    /\ session' = session
    /\ UNCHANGED pure

\* main: a REFERENCE_ONLY message is printed and skipped.
main_reference_only ==
    /\ blpop("REFERENCE_ONLY")
    /\ cur' = 0
    /\ UNCHANGED << db, pushes, pc, world, channel, locals, exc, parse_result, run_committed, run_published >>
    /\ session' = session
    /\ UNCHANGED pure

\* main: a payload parse_task_data could not classify is printed and skipped.
main_unknown ==
    /\ blpop(NULL)
    /\ cur' = 0
    /\ UNCHANGED << db, pushes, pc, world, channel, locals, exc, parse_result, run_committed, run_published >>
    /\ session' = session
    /\ UNCHANGED pure

\* main: a regular message starts process_task(task_id, task_data).
main_regular ==
    /\ blpop("REGULAR")
    /\ cur' = parse_task_data(Head(queue))[2].task_id
    /\ pc' = "load"
    /\ exc' = NULL
    /\ parse_result' = NoParse
    /\ run_committed' = << >>
    /\ run_published' = << >>
    /\ channel' = << >>
    /\ context' = NoContext
    /\ response' = NoResponse
    /\ result' = NoResult
    /\ UNCHANGED << db, pushes, world >>
    /\ session' = "clean"
    /\ UNCHANGED pure

\* --------------------------------------------------- worker: process_task
\* One committed change of the current task's row.
CommitTask(row) ==
    /\ tasks' = [tasks EXCEPT ![cur] = row]
    /\ run_committed' = Append(run_committed, << cur, row.status >>)

\* An exception raised inside the try block: control goes to the handler.
Raise(e) ==
    /\ exc' = e
    /\ pc' = "handler"

\* process_task: no InferenceTask row with this id; return.
process_task_not_found ==
    /\ pc = "load"
    /\ cur \notin DOMAIN tasks
    /\ pc' = "idle"
    /\ UNCHANGED << db, queue, pushes, run, world >>
    /\ UNCHANGED pure

\* process_task_no_file without the check of the file: the task is taken
\* into PARSING although there is nothing to hand to the parser.
process_task_no_file_unchecked ==
    /\ pc = "load"
    /\ cur \in DOMAIN tasks
    /\ files[tasks[cur].version_id].cache_path = NULL
    /\ CommitTask([tasks[cur] EXCEPT !.status = "PARSING",
                                     !.started_at = "SET"])
    /\ pc' = "pub_PARSING"
    /\ UNCHANGED << papers, files, feedbacks, embeddings, queue, pushes, world, data, channel, locals,
                    cur, exc, parse_result, run_published >>
    /\ session' = "clean"
    /\ UNCHANGED pure

\* process_task: no primary file with a cache_path; ERROR is committed and
\* the function returns.
process_task_no_file ==
    /\ pc = "load"
    /\ cur \in DOMAIN tasks
    /\ files[tasks[cur].version_id].cache_path = NULL
    /\ CommitTask([tasks[cur] EXCEPT !.status = "ERROR",
                                     !.error_message = "No file found"])
    /\ pc' = "idle"
    /\ UNCHANGED << papers, files, feedbacks, embeddings, queue, pushes, world, data, channel, locals,
                    cur, exc, parse_result, run_published >>
    /\ session' = "clean"
    /\ UNCHANGED pure

\* process_task: status PARSING and started_at are committed.
process_task_parsing ==
    /\ pc = "load"
    /\ cur \in DOMAIN tasks
    /\ files[tasks[cur].version_id].cache_path # NULL
    /\ \E committed \in BOOLEAN :
         IF committed
         THEN /\ CommitTask([tasks[cur] EXCEPT !.status = "PARSING",
                                               !.started_at = "SET"])
              /\ pc' = "pub_PARSING"
              /\ exc' = exc
         ELSE /\ Raise("commit failed")
              /\ UNCHANGED << tasks, run_committed >>
    /\ UNCHANGED << papers, files, feedbacks, embeddings, queue, pushes, world, data, channel, locals,
                    cur, parse_result, run_published >>
    /\ session' = IF pc' = "handler" THEN "begun" ELSE "clean"
    /\ UNCHANGED pure

\* publish_notification(task_id, status, ...) after a commit; where
\* process_task goes on afterwards.
AfterPublish ==
    [ pub_PARSING   |-> "call_parser",
      pub_RAG       |-> "save_chunk_embeddings",
      pub_LLM       |-> "call_ollama",
      pub_COMPLETED |-> "idle",
      pub_ERROR     |-> "idle" ]

PublishedStatus ==
    [ pub_PARSING   |-> "PARSING",
      pub_RAG       |-> "RAG",
      pub_LLM       |-> "LLM",
      pub_COMPLETED |-> "COMPLETED",
      pub_ERROR     |-> "ERROR" ]

\* publish_notification whose failure is not caught: the exception reaches
\* process_task's handler.
publish_notification_raising(delivered) ==
    /\ pc \in DOMAIN AfterPublish
    /\ run_published' = Append(run_published, << cur, PublishedStatus[pc] >>)
    /\ IF delivered
       THEN /\ channel' = Append(channel, << cur, PublishedStatus[pc] >>)
            /\ pc' = AfterPublish[pc]
            /\ exc' = exc
       ELSE /\ channel' = channel
            /\ Raise("publish failed")
    /\ UNCHANGED << db, queue, pushes, world, data, locals, cur, parse_result,
                    run_committed >>
    /\ session' = IF pc = "pub_RAG" THEN "begun" ELSE session
    /\ UNCHANGED pure

\* The call publishes on 'task_notifications' (delivered) or fails; the
\* failure is printed and swallowed inside publish_notification.
publish_notification(delivered) ==
    /\ pc \in DOMAIN AfterPublish
    /\ run_published' = Append(run_published, << cur, PublishedStatus[pc] >>)
    /\ channel' = IF delivered
                  THEN Append(channel, << cur, PublishedStatus[pc] >>)
                  ELSE channel
    /\ pc' = AfterPublish[pc]
    /\ UNCHANGED << db, queue, pushes, world, data, locals, cur, exc, parse_result,
                    run_committed >>
    /\ session' = IF pc = "pub_RAG" THEN "begun" ELSE session
    /\ UNCHANGED pure

\* call_parser(file_path): the parsing service answers for the stored file,
\* or the request fails.
call_parser ==
    /\ pc = "call_parser"
    /\ \E ok \in BOOLEAN :
         IF ok
         THEN /\ pc' = "rag"
              /\ parse_result' = files[tasks[cur].version_id].parser_response
              /\ exc' = exc
         ELSE /\ Raise("parser failed")
              /\ parse_result' = parse_result
    /\ UNCHANGED << db, queue, pushes, world, data, channel, locals, cur, run_committed, run_published >>
    /\ session' = session
    /\ UNCHANGED pure

\* process_task_rag without its db.commit(): the status is assigned on the
\* session object only and process_task goes on.
process_task_rag_uncommitted ==
    /\ pc = "rag"
    /\ pc' = "pub_RAG"
    /\ UNCHANGED << db, queue, pushes, world, data, channel, locals, cur, exc, parse_result,
                    run_committed, run_published >>
    /\ session' = session
    /\ UNCHANGED pure

\* process_task: status RAG is committed.
process_task_rag ==
    /\ pc = "rag"
    /\ \E committed \in BOOLEAN :
         IF committed
         THEN /\ CommitTask([tasks[cur] EXCEPT !.status = "RAG"])
              /\ pc' = "pub_RAG"
              /\ exc' = exc
         ELSE /\ Raise("commit failed")
              /\ UNCHANGED << tasks, run_committed >>
    /\ UNCHANGED << papers, files, feedbacks, embeddings, queue, pushes, world, data, channel, locals,
                    cur, parse_result, run_published >>
    /\ session' = IF pc' = "handler" THEN "begun" ELSE "clean"
    /\ UNCHANGED pure

\* not content.strip()
Blank(content) == content \in {"", " "}

\* The rows save_chunk_embeddings adds for a chunk list: blank chunks are
\* skipped, chunk_index defaults to the number of rows saved so far.
RECURSIVE ChunkRows(_, _, _)
ChunkRows(file_id, chunks, saved_count) ==
    IF chunks = << >> THEN << >>
    ELSE LET chunk == Head(chunks) IN
         IF Blank(chunk.content)
         THEN ChunkRows(file_id, Tail(chunks), saved_count)
         ELSE << [ file_id       |-> file_id,
                   chunk_index   |-> IF chunk.chunk_index = NoIndex
                                     THEN saved_count ELSE chunk.chunk_index,
                   content_chunk |-> chunk.content ] >>
              \o ChunkRows(file_id, Tail(chunks), saved_count + 1)

\* worker.save_chunk_embeddings: the embeddings table after db.add of every
\* row and db.commit.
save_chunk_embeddings(table, file_id, chunks) ==
    [table EXCEPT ![file_id] = @ \o ChunkRows(file_id, chunks, 0)]

\* The chunk list process_task stores: the parser's chunks, or the whole
\* text as one chunk when the parser returned none (parsed_text[:5000]; the
\* texts of the model are shorter than that).
ChunksToSave(parsed) ==
    IF parsed.chunks # << >> THEN parsed.chunks
    ELSE << [content |-> parsed.text, chunk_index |-> 0] >>

\* process_task: embedding generation and storage of the chunks.
\* generate_embedding swallows backend errors; the insert can fail.
process_task_save_chunk_embeddings ==
    /\ pc = "save_chunk_embeddings"
    /\ \E committed \in BOOLEAN :
         IF committed
         THEN /\ embeddings' = save_chunk_embeddings(
                     embeddings, tasks[cur].version_id, ChunksToSave(parse_result))
              /\ pc' = "get_rag_context"
              /\ exc' = exc
         ELSE /\ Raise("commit failed")
              /\ embeddings' = embeddings
    /\ UNCHANGED << tasks, papers, files, feedbacks, queue, pushes, world, data, channel, locals,
                    cur, parse_result, run_committed, run_published >>
    /\ session' = "begun"
    /\ UNCHANGED pure

\* worker.get_rag_context: whether the similarity searches find rows.  The
\* chunk search leaves out the current file.
get_rag_context(w, table, current_file_id) ==
    [ related_chunks |-> \/ w.other_chunks
                         \/ \E f \in DOMAIN table \ {current_file_id} : table[f] # << >>,
      related_rules  |-> w.conference_rules # {} ]

\* process_task_get_rag_context that insists on the prior feedback of a
\* resubmission: a parent paper without a Feedback is an error.
process_task_get_rag_context_strict ==
    /\ pc = "get_rag_context"
    /\ IF world.parent.paper /\ get_previous_feedback_context(world) = {}
       THEN /\ Raise("previous feedback not found")
            /\ context' = context
       ELSE /\ context' =
                 [ conference_context |-> get_conference_context(world),
                   previous_feedback  |-> get_previous_feedback_context(world),
                   related_chunks     |-> FALSE,
                   related_rules      |-> FALSE,
                   diff_text          |-> "" ]
            /\ pc' = "llm"
            /\ exc' = exc
    /\ UNCHANGED << db, queue, pushes, world, data, channel, response, result, cur,
                    parse_result, run_committed, run_published >>
    /\ session' = session
    /\ UNCHANGED pure

\* process_task: conference, prior-feedback, RAG and diff context.  The
\* similarity queries can raise; nothing is written.
process_task_get_rag_context ==
    /\ pc = "get_rag_context"
    /\ \E ok \in BOOLEAN :
         IF ok
         THEN /\ LET rag_context ==
                         get_rag_context(world, embeddings, tasks[cur].version_id)
                     parent_text == get_parent_paper_text(world)
                 IN context' =
                      [ conference_context |-> get_conference_context(world),
                        previous_feedback  |-> get_previous_feedback_context(world),
                        related_chunks     |-> rag_context.related_chunks,
                        related_rules      |-> rag_context.related_rules,
                        diff_text          |-> IF parent_text # ""
                                               THEN generate_diff_summary(
                                                        parent_text, parse_result.text,
                                                        default_max_length)
                                               ELSE "" ]
              /\ pc' = "llm"
              /\ exc' = exc
         ELSE /\ Raise("search failed")
              /\ context' = context
    /\ UNCHANGED << db, queue, pushes, world, data, channel, response, result, cur,
                    parse_result, run_committed, run_published >>
    /\ session' = session
    /\ UNCHANGED pure

\* process_task: status LLM is committed.
process_task_llm ==
    /\ pc = "llm"
    /\ \E committed \in BOOLEAN :
         IF committed
         THEN /\ CommitTask([tasks[cur] EXCEPT !.status = "LLM"])
              /\ pc' = "pub_LLM"
              /\ exc' = exc
         ELSE /\ Raise("commit failed")
              /\ UNCHANGED << tasks, run_committed >>
    /\ UNCHANGED << papers, files, feedbacks, embeddings, queue, pushes, world, data, channel, locals,
                    cur, parse_result, run_published >>
    /\ session' = IF pc' = "handler" THEN "begun" ELSE "clean"
    /\ UNCHANGED pure

\* call_ollama(prompt).
\* In mock mode no request is made.  Otherwise the request fails (raised) or
\* answers with response_text r, which is parsed.
call_ollama(ok, r) ==
    /\ pc = "call_ollama"
    /\ IF world.mock_mode
       THEN /\ result' = MockResult
            /\ response' = response
            /\ pc' = "save_feedback"
            /\ exc' = exc
       ELSE IF ok
            THEN /\ response' = r
                 /\ result' = parse_response(r)
                 /\ pc' = "save_feedback"
                 /\ exc' = exc
            ELSE /\ Raise("ollama failed")
                 /\ UNCHANGED << response, result >>
    /\ UNCHANGED << db, queue, pushes, world, data, channel, context, cur,
                    parse_result, run_committed, run_published >>
    /\ session' = session
    /\ UNCHANGED pure

\* process_task: result.get on a value that is no dict raises.  Otherwise the
\* Feedback row, status COMPLETED with completed_at and the paper's status
\* COMPLETED are written in one commit.
\* The Feedback row process_task builds from result and the contexts.
Feedback(version_id, task_id, res, ctx, parent) ==
    [ version_id      |-> version_id,
      task_id         |-> task_id,
      overall_summary |-> res.summary,
      comments        |-> {"typos", "suggestions", "_rag_stats"}
                              \cup (res.keys \cap {ImprovementsKey}),
      suggestions     |-> res.suggestions,
      rag_stats       |-> [ related_chunks   |-> ctx.related_chunks,
                            related_rules    |-> ctx.related_rules,
                            diff_length      |-> IF ctx.diff_text = "" THEN 0 ELSE 1,
                            has_parent_paper |-> parent.paper ] ]

\* process_task_save_feedback with the Feedback committed on its own before
\* the status: the row stays when the commit of COMPLETED fails.
process_task_save_feedback_two_commits ==
    /\ pc = "save_feedback"
    /\ IF ~result.is_dict
       THEN /\ Raise("AttributeError")
            /\ UNCHANGED << tasks, papers, feedbacks, run_committed >>
       ELSE \E committed \in BOOLEAN :
         IF committed
         THEN /\ feedbacks' = [feedbacks EXCEPT ![tasks[cur].version_id] =
                     Append(@, Feedback(tasks[cur].version_id, cur, result,
                                        context, world.parent))]
              /\ CommitTask([tasks[cur] EXCEPT !.status = "COMPLETED",
                                               !.completed_at = "SET"])
              /\ papers' = [papers EXCEPT ![tasks[cur].version_id].status = "COMPLETED"]
              /\ pc' = "pub_COMPLETED"
              /\ exc' = exc
         ELSE /\ feedbacks' = [feedbacks EXCEPT ![tasks[cur].version_id] =
                     Append(@, Feedback(tasks[cur].version_id, cur, result,
                                        context, world.parent))]
              /\ Raise("commit failed")
              /\ UNCHANGED << tasks, papers, run_committed >>
    /\ UNCHANGED << files, embeddings, queue, pushes, world, data, channel, locals, cur, parse_result, run_published >>
    /\ session' = IF exc' = "commit failed" THEN "begun" ELSE "clean"
    /\ UNCHANGED pure

process_task_save_feedback ==
    /\ pc = "save_feedback"
    /\ IF ~result.is_dict
       THEN /\ Raise("AttributeError")
            /\ UNCHANGED << tasks, papers, feedbacks, run_committed >>
       ELSE \E committed \in BOOLEAN :
         IF committed
         THEN /\ feedbacks' = [feedbacks EXCEPT ![tasks[cur].version_id] =
                     Append(@, Feedback(tasks[cur].version_id, cur, result,
                                        context, world.parent))]
              /\ CommitTask([tasks[cur] EXCEPT !.status = "COMPLETED",
                                               !.completed_at = "SET"])
              /\ papers' = [papers EXCEPT ![tasks[cur].version_id].status = "COMPLETED"]
              /\ pc' = "pub_COMPLETED"
              /\ exc' = exc
         ELSE /\ Raise("commit failed")
              /\ UNCHANGED << tasks, papers, feedbacks, run_committed >>
    /\ UNCHANGED << files, embeddings, queue, pushes, world, data, channel, locals, cur, parse_result, run_published >>
    /\ session' = IF exc' = "commit failed" THEN "begun" ELSE "clean"
    /\ UNCHANGED pure

\* process_task_except as a retry that never checks max_retries: every
\* failure increments retry_count, resets the task to PENDING and pushes its
\* id back onto 'tasks'.
process_task_except_unbounded_retry ==
    /\ pc = "handler"
    /\ CommitTask([tasks[cur] EXCEPT !.status = "PENDING",
                                     !.retry_count = @ + 1])
    /\ queue' = Append(queue, LegacyPayload(cur))
    /\ pc' = "idle"
    /\ exc' = NULL
    /\ UNCHANGED << papers, files, feedbacks, embeddings, pushes, world, data, channel, locals,
                    cur, parse_result, run_published >>
    /\ session' = "clean"
    /\ UNCHANGED pure

\* process_task, except Exception: rollback, then ERROR with str(e),
\* completed_at and the paper's status ERROR in one commit.  When that
\* update itself fails, the failure is printed and the function returns.
\* An except block whose own failure leaves the loop instead of returning to it.
process_task_except_uncaught ==
    /\ pc = "handler"
    /\ \E committed \in BOOLEAN :
         IF committed
         THEN /\ CommitTask([tasks[cur] EXCEPT !.status = "ERROR",
                                               !.error_message = exc,
                                               !.completed_at = "SET"])
              /\ papers' = [papers EXCEPT ![tasks[cur].version_id].status = "ERROR"]
              /\ pc' = "pub_ERROR"
         ELSE /\ pc' = "exited"
              /\ UNCHANGED << tasks, papers, run_committed >>
    /\ exc' = NULL
    /\ UNCHANGED << files, feedbacks, embeddings, queue, pushes, world, data, channel, locals,
                    cur, parse_result, run_published >>
    /\ session' = "clean"
    /\ UNCHANGED pure

process_task_except ==
    /\ pc = "handler"
    /\ \E committed \in BOOLEAN :
         IF committed
         THEN /\ CommitTask([tasks[cur] EXCEPT !.status = "ERROR",
                                               !.error_message = exc,
                                               !.completed_at = "SET"])
              /\ papers' = [papers EXCEPT ![tasks[cur].version_id].status = "ERROR"]
              /\ pc' = "pub_ERROR"
         ELSE /\ pc' = "idle"
              /\ UNCHANGED << tasks, papers, run_committed >>
    /\ exc' = NULL
    /\ UNCHANGED << files, feedbacks, embeddings, queue, pushes, world, data, channel, locals,
                    cur, parse_result, run_published >>
    /\ session' = "clean"
    /\ UNCHANGED pure

\* ------------------------------------------------------- crash, restart
\* The worker process dies.  Its locals are lost; the database and the
\* Redis list keep what was committed and pushed.  cur keeps the task the
\* process was working on until the restart; the call it was in is over, so
\* the record of what that call committed and published starts afresh.
Crash ==
    /\ pc # "restarting"
    /\ pc' = "restarting"
    /\ cur' = IF pc = "idle" THEN 0 ELSE cur
    /\ data' = NoPayload
    /\ exc' = NULL
    /\ parse_result' = NoParse
    /\ run_committed' = << >>
    /\ run_published' = << >>
    /\ channel' = << >>
    /\ context' = NoContext
    /\ response' = NoResponse
    /\ result' = NoResult
    /\ UNCHANGED << db, queue, pushes, world >>
    /\ session' = "clean"
    /\ UNCHANGED pure

\* main: start-up up to "Worker ready", then the BLPOP loop.
Restart ==
    /\ pc = "restarting"
    /\ pc' = "idle"
    /\ cur' = 0
    /\ UNCHANGED << db, queue, pushes, world, data, channel, locals, exc, parse_result, run_committed, run_published >>
    /\ session' = session
    /\ UNCHANGED pure

\* ----------------------------------------------------------------- Next
Next ==
    \/ \E is_reference \in BOOLEAN, resp \in ParserResponses :
           upload_paper(is_reference, resp)
    \/ \E t \in TaskIds : push_task(t)
    \/ \E t \in TaskIds : push_reference_only(t)
    \/ \E t \in TaskIds : check_redis_and_submit_task(t)
    \/ \E m \in MalformedPayloads : push_malformed(m)
    \/ main_diagnosis
    \/ main_reference_only
    \/ main_unknown
    \/ main_regular
    \/ process_task_not_found
    \/ process_task_no_file
    \/ process_task_parsing
    \/ publish_notification(TRUE)
    \/ call_parser
    \/ process_task_rag
    \/ process_task_save_chunk_embeddings
    \/ process_task_get_rag_context
    \/ process_task_llm
    \/ \E ok \in BOOLEAN : call_ollama(ok, PlainObject)
    \/ process_task_save_feedback
    \/ process_task_except
    \/ Crash
    \/ Restart

Spec == Init /\ [][Next]_vars

\* ------------------------------------------------- one worker, no crashes
\* The steps of process_task between its first commit and its return that
\* neither publish nor call the generation backend.
process_task_steps ==
    \/ main_regular
    \/ process_task_parsing
    \/ call_parser
    \/ process_task_rag
    \/ process_task_save_chunk_embeddings
    \/ process_task_get_rag_context
    \/ process_task_llm
    \/ process_task_save_feedback
    \/ process_task_except

\* Uploads and their runs, where a publish can fail and the generation
\* backend can answer with any response.
NextRun ==
    \/ \E is_reference \in BOOLEAN, resp \in ParserResponses :
           upload_paper(is_reference, resp)
    \/ process_task_steps
    \/ \E delivered \in BOOLEAN : publish_notification(delivered)
    \/ \E ok \in BOOLEAN, r \in Responses : call_ollama(ok, r)

SpecRun == Init /\ [][NextRun]_vars

\* ------------------------------------------------- the loop under fairness
\* One iteration of the while loop of main, taken a step at a time: the
\* dequeue with its dispatch, and every step of the handler it calls.
main ==
    \/ main_diagnosis
    \/ main_reference_only
    \/ main_unknown
    \/ main_regular
    \/ process_task_not_found
    \/ process_task_no_file
    \/ process_task_parsing
    \/ publish_notification(TRUE)
    \/ call_parser
    \/ process_task_rag
    \/ process_task_save_chunk_embeddings
    \/ process_task_get_rag_context
    \/ process_task_llm
    \/ \E ok \in BOOLEAN : call_ollama(ok, PlainObject)
    \/ process_task_save_feedback
    \/ process_task_except

\* The producers of messages.
producers ==
    \/ \E is_reference \in BOOLEAN, resp \in ParserResponses :
           upload_paper(is_reference, resp)
    \/ \E t \in TaskIds : push_task(t)
    \/ \E t \in TaskIds : push_reference_only(t)
    \/ \E t \in TaskIds : check_redis_and_submit_task(t)
    \/ \E m \in MalformedPayloads : push_malformed(m)

NextLive ==
    \/ producers
    \/ main

\* The worker process keeps running: its loop is a single thread whose next
\* statement is always executed, and every blocking call it makes has a
\* timeout.  Every step of main moves the worker's position or pops the queue.
SpecLive == Init /\ [][NextLive]_vars /\ WF_<< pc, queue >>(main)

\* Uploads and their runs in every world: mock mode or not, with or without
\* a conference rule, a parent paper and its rows, and other files' chunks.
InitEnrich ==
    /\ tasks = << >>
    /\ papers = << >>
    /\ files = << >>
    /\ feedbacks = << >>
    /\ embeddings = << >>
    /\ queue = << >>
    /\ pushes = 0
    /\ pc = "idle"
    /\ data = NoPayload
    /\ cur = 0
    /\ exc = NULL
    /\ parse_result = NoParse
    /\ run_committed = << >>
    /\ run_published = << >>
    /\ channel = << >>
    /\ context = NoContext
    /\ response = NoResponse
    /\ result = NoResult
    /\ world \in Worlds
    /\ session = "clean"
    /\ args = NoArgs
    /\ ret = NoReturn
    /\ lineage = << >>
    /\ uploads = << >>

NextEnrich ==
    \/ \E is_reference \in BOOLEAN, resp \in ParserResponses :
           upload_paper(is_reference, resp)
    \/ process_task_steps
    \/ publish_notification(TRUE)
    \/ \E ok \in BOOLEAN, r \in {PlainObject} : call_ollama(ok, r)

SpecEnrich == InitEnrich /\ [][NextEnrich]_vars

\* ------------------------------------------------ functions on their own
\* The program after construction with an empty database and an idle worker:
\* the state in which a function is applied on its own.
Constructed ==
    /\ tasks = << >>
    /\ papers = << >>
    /\ files = << >>
    /\ feedbacks = << >>
    /\ embeddings = << >>
    /\ queue = << >>
    /\ pushes = 0
    /\ pc = "idle"
    /\ data = NoPayload
    /\ cur = 0
    /\ exc = NULL
    /\ parse_result = NoParse
    /\ run_committed = << >>
    /\ run_published = << >>
    /\ channel = << >>
    /\ context = NoContext
    /\ response = NoResponse
    /\ result = NoResult
    /\ world = DefaultWorld
    /\ session = "clean"

\* Similarities are counted in hundredths: 31 stands for 0.31.
Similarities == {0, 30, 31, 50, 51}

\* What a similarity search returns: at most n hits, most similar first.
Hits(n) ==
    UNION { { h \in [1..k -> [similarity : Similarities]] :
                \A i \in 1..(k - 1) : h[i].similarity >= h[i + 1].similarity }
            : k \in 0..n }

\* The first n elements of a list (Python's s[:n]).
Slice(s, n) == SubSeq(s, 1, IF Len(s) < n THEN Len(s) ELSE n)

\* The concatenation of the lists f[1], ..., f[n].
RECURSIVE Flatten(_)
Flatten(f) == IF f = << >> THEN << >> ELSE Head(f) \o Flatten(Tail(f))

\* build_analysis_prompt with one output schema for every submission: the
\* improvements_from_previous field is always requested.
build_analysis_prompt_fixed_schema(paper_text, conference_context, previous_feedback, rag_context, diff_text) ==
    << "instruction" >>
    \o (IF conference_context # {} THEN << "## conference rules" >> ELSE << >>)
    \o (IF rag_context.related_rules # << >>
        THEN << "## related guidelines" >>
             \o Flatten([i \in DOMAIN Slice(rag_context.related_rules, 2) |->
                    IF rag_context.related_rules[i].similarity > rule_similarity_threshold
                    THEN << "### rule" >> ELSE << >>])
        ELSE << >>)
    \o (IF previous_feedback # {} THEN << "## previous feedback" >> ELSE << >>)
    \o (IF diff_text # "" THEN << "## diff", diff_text >> ELSE << >>)
    \o (IF rag_context.related_chunks # << >>
        THEN LET relevant_chunks ==
                     SelectSeq(rag_context.related_chunks,
                               LAMBDA c : c.similarity > chunk_similarity_threshold)
             IN  IF relevant_chunks # << >>
                 THEN << "## related chunks" >>
                      \o [i \in DOMAIN Slice(relevant_chunks, 3) |-> "### chunk"]
                 ELSE << >>
        ELSE << >>)
    \o << "## analysis", "1. summary", "2. typos", "3. suggestions" >>
    \o (IF previous_feedback # {} THEN << "4. improvements_from_previous" >> ELSE << >>)
    \o << "## output format", "summary", "typos", "suggestions" >>
    \o << "improvements_from_previous" >>
    \o << "## paper text", paper_text, "## answer" >>

\* worker.build_analysis_prompt: the lines it appends to 'sections', one name
\* per heading, per listed hit and per item of the analysis request and of
\* the JSON schema.  The lines inside the conference and the prior-feedback
\* block belong to their heading.
build_analysis_prompt(paper_text, conference_context, previous_feedback, rag_context, diff_text) ==
    << "instruction" >>
    \o (IF conference_context # {} THEN << "## conference rules" >> ELSE << >>)
    \o (IF rag_context.related_rules # << >>
        THEN << "## related guidelines" >>
             \o Flatten([i \in DOMAIN Slice(rag_context.related_rules, 2) |->
                    IF rag_context.related_rules[i].similarity > rule_similarity_threshold
                    THEN << "### rule" >> ELSE << >>])
        ELSE << >>)
    \o (IF previous_feedback # {} THEN << "## previous feedback" >> ELSE << >>)
    \o (IF diff_text # "" THEN << "## diff", diff_text >> ELSE << >>)
    \o (IF rag_context.related_chunks # << >>
        THEN LET relevant_chunks ==
                     SelectSeq(rag_context.related_chunks,
                               LAMBDA c : c.similarity > chunk_similarity_threshold)
             IN  IF relevant_chunks # << >>
                 THEN << "## related chunks" >>
                      \o [i \in DOMAIN Slice(relevant_chunks, 3) |-> "### chunk"]
                 ELSE << >>
        ELSE << >>)
    \o << "## analysis", "1. summary", "2. typos", "3. suggestions" >>
    \o (IF previous_feedback # {} THEN << "4. improvements_from_previous" >> ELSE << >>)
    \o << "## output format", "summary", "typos", "suggestions" >>
    \o (IF previous_feedback # {} THEN << "improvements_from_previous" >> ELSE << >>)
    \o << "## paper text", paper_text, "## answer" >>

\* The arguments process_task can pass to build_analysis_prompt.
PromptArgs ==
    [ paper_text         : {"t"},
      conference_context : {{}, {"name", "format_rules", "style_guide"}},
      previous_feedback  : {{}, {"parent_title", "summary", "suggestions", "typos"}},
      rag_context        : [related_chunks : Hits(MaxHits), related_rules : Hits(MaxHits)],
      diff_text          : {"", "diff"} ]

InitPrompt ==
    /\ Constructed
    /\ args \in PromptArgs
    /\ ret = NoReturn
    /\ lineage = << >>
    /\ uploads = << >>

apply_build_analysis_prompt ==
    /\ ~ret.done
    /\ ret' = Return(build_analysis_prompt(args.paper_text, args.conference_context,
                                           args.previous_feedback, args.rag_context,
                                           args.diff_text))
    /\ UNCHANGED << program, args, lineage, uploads >>

NextPrompt == apply_build_analysis_prompt

SpecPrompt == InitPrompt /\ [][NextPrompt]_vars

\* The texts of at most n lines, each line "a" or "b" with its newline.
RECURSIVE Texts(_)
Texts(n) ==
    IF n = 0 THEN {""}
    ELSE Texts(n - 1) \cup { t \o l : t \in Texts(n - 1), l \in {"a\n", "b\n"} }

\* Calls of generate_diff_summary with a cap.
DiffArgs ==
    [ old_text : Texts(MaxLines), new_text : Texts(MaxLines), max_length : 0..MaxLength ]

InitDiff ==
    /\ Constructed
    /\ args \in DiffArgs
    /\ ret = NoReturn
    /\ lineage = << >>
    /\ uploads = << >>

apply_generate_diff_summary ==
    /\ ~ret.done
    /\ ret' = Return(generate_diff_summary(args.old_text, args.new_text, args.max_length))
    /\ UNCHANGED << program, args, lineage, uploads >>

NextDiff == apply_generate_diff_summary

SpecDiff == InitDiff /\ [][NextDiff]_vars

\* A vector, by its number of elements and the value they all have ("x" for
\* the values a model computes).
Vector(n, v) == [len |-> n, fill |-> v]

\* What the embedding backend does with a request: fail (connection error,
\* timeout, HTTP error status, body that is not JSON), answer with a JSON
\* object without the "embedding" field, or answer with a vector.
EmbeddingOutcomes ==
    { [kind |-> "error", len |-> 0], [kind |-> "no_field", len |-> 0] }
    \cup { [kind |-> "vector", len |-> n] : n \in 0..(embedding_dim + MaxExtraDim) }

\* worker.generate_embedding: the dummy vector in mock mode; else the
\* "embedding" field of the answer, [] without the field, and the zero
\* vector when the request raises.
generate_embedding(mock_mode, outcome) ==
    IF mock_mode THEN Vector(embedding_dim, "0.1")
    ELSE IF outcome.kind = "error" THEN Vector(embedding_dim, "0.0")
    ELSE IF outcome.kind = "no_field" THEN Vector(0, "x")
    ELSE Vector(outcome.len, "x")

EmbeddingArgs == [ mock_mode : BOOLEAN, outcome : EmbeddingOutcomes ]

InitEmbedding ==
    /\ Constructed
    /\ args \in EmbeddingArgs
    /\ ret = NoReturn
    /\ lineage = << >>
    /\ uploads = << >>

apply_generate_embedding ==
    /\ ~ret.done
    /\ ret' = Return(generate_embedding(args.mock_mode, args.outcome))
    /\ UNCHANGED << program, args, lineage, uploads >>

NextEmbedding == apply_generate_embedding

SpecEmbedding == InitEmbedding /\ [][NextEmbedding]_vars

\* The rows of embeddings as the search sees them: the file of the chunk,
\* whether its vector is set, and the cosine distance (in hundredths) of the
\* vector to the query vector.
FileIds == {1, 2}
NoFile == 0
Distances == {0, 40, 100}
EmbeddingRows == [ file_id : FileIds, has_embedding : BOOLEAN, distance : Distances ]

Stores == UNION { [1..n -> EmbeddingRows] : n \in 0..MaxChunks }

\* The orders in which ORDER BY e.embedding <=> :query_vector can deliver the
\* rows 'rows' of 'store': nearest first, rows at the same distance in any
\* order.
OrderBy(store, rows) ==
    { p \in [1..Cardinality(rows) -> rows] :
        /\ \A i, j \in DOMAIN p : i # j => p[i] # p[j]
        /\ \A i, j \in DOMAIN p : i < j => store[p[i]].distance <= store[p[j]].distance }

\* The rows the WHERE clause of semantic_search_chunks lets through.
Where(store, exclude_file_id) ==
    { c \in DOMAIN store :
        /\ store[c].has_embedding
        /\ exclude_file_id = NoFile \/ store[c].file_id # exclude_file_id }

\* semantic_search_chunks that searches the chunks of every file.
semantic_search_chunks_unfiltered(store, exclude_file_id, top_k) ==
    { [i \in DOMAIN Slice(p, top_k) |->
          [chunk |-> p[i], similarity |-> 100 - store[p[i]].distance]]
      : p \in OrderBy(store, Where(store, NoFile)) }

\* worker.semantic_search_chunks: the results the query can return, each hit
\* with its row and its similarity 1 - distance.
semantic_search_chunks(store, exclude_file_id, top_k) ==
    { [i \in DOMAIN Slice(p, top_k) |->
          [chunk |-> p[i], similarity |-> 100 - store[p[i]].distance]]
      : p \in OrderBy(store, Where(store, exclude_file_id)) }

SearchArgs ==
    [ store : Stores, exclude_file_id : FileIds \cup {NoFile}, top_k : 1..MaxTopK ]

InitSearch ==
    /\ Constructed
    /\ args \in SearchArgs
    /\ ret = NoReturn
    /\ lineage = << >>
    /\ uploads = << >>

apply_semantic_search_chunks ==
    /\ ~ret.done
    /\ \E hits \in semantic_search_chunks(args.store, args.exclude_file_id, args.top_k) :
           ret' = Return(hits)
    /\ UNCHANGED << program, args, lineage, uploads >>

NextSearch == apply_semantic_search_chunks

SpecSearch == InitSearch /\ [][NextSearch]_vars

\* A response_text in parts: prose without braces or fences, a ```json
\* fence, a bare ``` fence, or unfenced text in braces.  What a fence or the
\* braces hold is a JSON object, text in balanced braces that is no JSON, or
\* (in a fence) text without braces.
Segments ==
    { [seg |-> "prose", body |-> "garbage"] }
    \cup [seg : {"json_fence", "fence"}, body : {"object", "braced_garbage", "garbage"}]
    \cup [seg : {"bare"}, body : {"object", "braced_garbage"}]

ResponseTexts == UNION { [1..n -> Segments] : n \in 0..MaxSegments }

\* The positions of the parts of 'text' that are of one of the kinds 'segs'.
Positions(text, segs) == { i \in DOMAIN text : text[i].seg \in segs }
Min(S) == CHOOSE i \in S : \A j \in S : i <= j

\* call_ollama's choice of json_str (699-709): what is between the first
\* "```json" and the next "```"; else what is between the first two "```";
\* else the text from the first "{" to the last "}"; else the whole text.
\* The value tells which part was taken and whether json.loads accepts it.
extract_json_str(text) ==
    LET json_fences == Positions(text, {"json_fence"})
        fences == Positions(text, {"fence"})
        braces == Positions(text, {"bare"})
    IN  IF json_fences # {}
        THEN [strategy |-> "json_fence", at |-> Min(json_fences),
              parses |-> text[Min(json_fences)].body = "object"]
        ELSE IF fences # {}
        THEN [strategy |-> "fence", at |-> Min(fences),
              parses |-> text[Min(fences)].body = "object"]
        ELSE IF braces # {}
        THEN [strategy |-> "braces", at |-> Min(braces),
              parses |-> /\ Cardinality(braces) = 1
                         /\ text[Min(braces)].body = "object"]
        ELSE [strategy |-> "whole", at |-> 0, parses |-> FALSE]

\* call_ollama after the request (699-717): json.loads of the chosen
\* json_str, the fallback dict when that raises.
call_ollama_parse(text) ==
    LET j == extract_json_str(text)
    IN  IF j.parses THEN [from |-> "json.loads", strategy |-> j.strategy, at |-> j.at]
        ELSE [from |-> "except", strategy |-> j.strategy, at |-> j.at]

InitParse ==
    /\ Constructed
    /\ args \in ResponseTexts
    /\ ret = NoReturn
    /\ lineage = << >>
    /\ uploads = << >>

apply_call_ollama_parse ==
    /\ ~ret.done
    /\ ret' = Return(call_ollama_parse(args))
    /\ UNCHANGED << program, args, lineage, uploads >>

NextParse == apply_call_ollama_parse

SpecParse == InitParse /\ [][NextParse]_vars

\* The chunk lists a parser response can carry: content blank or not, a
\* chunk_index or none, the supplied chunk_index values pairwise distinct.
ChunkLists ==
    LET Chunks == [content : {"a", " "}, chunk_index : {NoIndex} \cup 0..(MaxChunkList - 1)]
    IN  { c \in UNION { [1..n -> Chunks] : n \in 0..MaxChunkList } :
            \A i, j \in DOMAIN c :
                (i # j /\ c[i].chunk_index # NoIndex) => c[i].chunk_index # c[j].chunk_index }

\* A File (file_id 1) without stored chunks.
EmptyFile == (1 :> << >>)

InitChunks ==
    /\ Constructed
    /\ args \in ChunkLists
    /\ ret = NoReturn
    /\ lineage = << >>
    /\ uploads = << >>

apply_save_chunk_embeddings ==
    /\ ~ret.done
    /\ ret' = Return(save_chunk_embeddings(EmptyFile, 1, args)[1])
    /\ UNCHANGED << program, args, lineage, uploads >>

NextChunks == apply_save_chunk_embeddings

SpecChunks == InitChunks /\ [][NextChunks]_vars

\* ------------------------------------------------- upload in two steps
\* upload_paper that enqueues the message in its first step, before the
\* InferenceTask is committed.
upload_paper_commit_after_push(is_reference, resp) ==
    /\ NextId <= MaxUploads
    /\ NextId \notin DOMAIN uploads
    /\ LET n == NextId IN
         /\ queue' = IF is_reference THEN queue
                     ELSE Append(queue, AnalysisPayload(n, "ANALYSIS"))
         /\ uploads' = uploads @@ (n :> [is_reference |-> is_reference, stage |-> "committed"])
    /\ UNCHANGED << db, pushes, pc, run, world, args, ret, lineage >>

\* papers.upload_paper up to the commit of the InferenceTask (264-343):
\* Paper, Version, File and InferenceTask are committed, a reference paper
\* and its task as COMPLETED, the others as PROCESSING and PENDING.
upload_paper_commit(is_reference, resp) ==
    /\ NextId <= MaxUploads
    /\ NextId \notin DOMAIN uploads
    /\ LET n == NextId IN
         /\ papers' = papers @@
              (n :> [status |-> IF is_reference THEN "COMPLETED" ELSE "PROCESSING"])
         /\ files' = files @@
              (n :> [cache_path |-> "path", parser_response |-> resp])
         /\ tasks' = tasks @@
              (n :> NewTask(n, IF is_reference THEN "COMPLETED" ELSE "PENDING"))
         /\ feedbacks' = feedbacks @@ (n :> << >>)
         /\ embeddings' = embeddings @@ (n :> << >>)
         /\ uploads' = uploads @@ (n :> [is_reference |-> is_reference, stage |-> "committed"])
    /\ UNCHANGED << queue, pushes, pc, run, world, args, ret, lineage >>

\* upload_paper that enqueues every task, the reference paper's too.
upload_paper_push_always(t, pushed) ==
    /\ t \in DOMAIN uploads
    /\ uploads[t].stage = "committed"
    /\ queue' = IF pushed THEN Append(queue, AnalysisPayload(t, "ANALYSIS")) ELSE queue
    /\ uploads' = [uploads EXCEPT ![t].stage = "returned"]
    /\ UNCHANGED << db, pushes, pc, run, world, args, ret, lineage >>

\* papers.upload_paper from the push to the response (348-370): unless
\* is_reference, push_task_with_payload appends the message, or catches the
\* error of a failed RPUSH and returns False (queue_service 54-67); the
\* return value is not looked at and the request answers with success.
upload_paper_push(t, pushed) ==
    /\ t \in DOMAIN uploads
    /\ uploads[t].stage = "committed"
    /\ queue' = IF ~uploads[t].is_reference /\ pushed
                THEN Append(queue, AnalysisPayload(t, "ANALYSIS")) ELSE queue
    /\ uploads' = [uploads EXCEPT ![t].stage = "returned"]
    /\ UNCHANGED << db, pushes, pc, run, world, args, ret, lineage >>

InitUpload ==
    /\ Constructed
    /\ args = NoArgs
    /\ ret = NoReturn
    /\ lineage = << >>
    /\ uploads = << >>

NextUpload ==
    \/ \E is_reference \in BOOLEAN, resp \in ParserResponses :
           upload_paper_commit(is_reference, resp)
    \/ \E t \in 1..MaxUploads, pushed \in BOOLEAN : upload_paper_push(t, pushed)
    \/ process_task_steps
    \/ publish_notification(TRUE)
    \/ \E ok \in BOOLEAN : call_ollama(ok, PlainObject)

SpecUpload == InitUpload /\ [][NextUpload]_vars

\* --------------------------------------------------- lineage traversals
\* A paper graph is the parent_paper_id of every paper (0 for none).  One id
\* beyond the papers stands for a parent whose row does not exist.  The
\* links need not be the ones uploads create: they may form cycles.
PaperIds == 1..MaxGraph

Graphs == [PaperIds -> 0..(MaxGraph + 1)]

\* The rows of a query without ORDER BY, here by ascending paper_id.
RECURSIVE Ascending(_)
Ascending(S) ==
    IF S = {} THEN << >>
    ELSE LET least == CHOOSE i \in S : \A j \in S : i <= j
         IN  << least >> \o Ascending(S \ {least})

\* The locals of a traversal: value is the paper returned or the list
\* all_papers, trace the papers in the order they were added to visited.
Locals(fn, paper) ==
    [done |-> FALSE, value |-> << >>, current |-> paper, visited |-> {},
     queue |-> IF fn = "find_all_descendant_papers" THEN << paper >> ELSE << >>,
     trace |-> << >>]

\* A climb to the root that does not look at visited.
find_root_paper_unguarded ==
    /\ args.fn = "find_root_paper"
    /\ ~ret.done
    /\ LET current == ret.current
           parent == args.graph[current]
       IN  IF parent = 0
           THEN ret' = [ret EXCEPT !.done = TRUE, !.value = << current >>]
           ELSE IF parent \notin DOMAIN args.graph
                THEN ret' = [ret EXCEPT !.visited = @ \cup {current},
                                        !.trace = Append(@, current),
                                        !.done = TRUE, !.value = << current >>]
                ELSE ret' = [ret EXCEPT !.visited = @ \cup {current},
                                        !.trace = Append(@, current),
                                        !.current = parent]
    /\ UNCHANGED << program, args, lineage, uploads >>

\* find_root_paper: one test of the while condition and, when it holds, one
\* pass through the loop body.
find_root_paper ==
    /\ args.fn = "find_root_paper"
    /\ ~ret.done
    /\ LET current == ret.current
           parent == args.graph[current]
       IN  IF parent = 0 \/ current \in ret.visited
           THEN ret' = [ret EXCEPT !.done = TRUE, !.value = << current >>]
           ELSE IF parent \notin DOMAIN args.graph
                THEN ret' = [ret EXCEPT !.visited = @ \cup {current},
                                        !.trace = Append(@, current),
                                        !.done = TRUE, !.value = << current >>]
                ELSE ret' = [ret EXCEPT !.visited = @ \cup {current},
                                        !.trace = Append(@, current),
                                        !.current = parent]
    /\ UNCHANGED << program, args, lineage, uploads >>

\* find_all_descendant_papers: one test of the while condition and, when
\* the queue is not empty, one pass through the loop body.
find_all_descendant_papers ==
    /\ args.fn = "find_all_descendant_papers"
    /\ ~ret.done
    /\ IF ret.queue = << >>
       THEN ret' = [ret EXCEPT !.done = TRUE]
       ELSE LET current_id == Head(ret.queue)
                visited == ret.visited \cup {current_id}
                children == { c \in DOMAIN args.graph :
                                args.graph[c] = current_id /\ c \notin visited }
            IN  IF current_id \in ret.visited
                THEN ret' = [ret EXCEPT !.queue = Tail(@)]
                ELSE IF current_id \in DOMAIN args.graph
                     THEN ret' = [ret EXCEPT !.queue = Tail(@) \o Ascending(children),
                                             !.visited = visited,
                                             !.trace = Append(@, current_id),
                                             !.current = current_id,
                                             !.value = Append(@, current_id)]
                     ELSE ret' = [ret EXCEPT !.queue = Tail(@),
                                             !.visited = visited,
                                             !.trace = Append(@, current_id),
                                             !.current = current_id]
    /\ UNCHANGED << program, args, lineage, uploads >>

InitTraverse ==
    /\ Constructed
    /\ args \in { a \in [fn : {"find_root_paper", "find_all_descendant_papers"},
                          graph : Graphs, paper : 1..(MaxGraph + 1)] :
                     a.fn = "find_root_paper" => a.paper \in PaperIds }
    /\ ret = Locals(args.fn, args.paper)
    /\ lineage = << >>
    /\ uploads = << >>

NextTraverse ==
    \/ find_root_paper
    \/ find_all_descendant_papers

\* A request that has called a traversal runs it to its return.
SpecTraverse == InitTraverse /\ [][NextTraverse]_vars /\ WF_ret(NextTraverse)

\* ------------------------------------------------------- paper lineages
\* upload_paper's Paper and Version: a row of 'lineage' is a paper with its
\* parent_paper_id (0 for none), the version_number of its Version (0 while
\* the Version is not committed) and the request's local version_number (0
\* before it is computed).  The paper_id is the position of the row.
NoPaper == 0

\* upload_paper 281-290: the Paper is committed; the parent, when given,
\* exists.
upload_paper_commit_paper(parent_paper_id) ==
    /\ Len(lineage) < MaxPapers
    /\ parent_paper_id \in {NoPaper} \cup DOMAIN lineage
    /\ lineage' = Append(lineage, [parent_paper_id |-> parent_paper_id,
                                   version_number |-> 0, local |-> 0])
    /\ UNCHANGED << program, args, ret, uploads >>

\* The committed versions of the parent and of the papers whose parent it
\* is (the join and filter of 298-300).
VersionsOfParentAndChildren(graph, parent_paper_id) ==
    { graph[q].version_number : q \in { q \in DOMAIN graph :
          /\ graph[q].version_number > 0
          /\ q = parent_paper_id \/ graph[q].parent_paper_id = parent_paper_id } }

Max(S) == CHOOSE i \in S : \A j \in S : i >= j

\* upload_paper 294-302: version_number is 1, or one more than the largest
\* committed version_number of the parent and its direct children.
upload_paper_version_number(paper_id) ==
    /\ paper_id \in DOMAIN lineage
    /\ lineage[paper_id].version_number = 0
    /\ lineage[paper_id].local = 0
    /\ LET parent_paper_id == lineage[paper_id].parent_paper_id
           found == VersionsOfParentAndChildren(lineage, parent_paper_id)
       IN  lineage' = [lineage EXCEPT ![paper_id].local =
                          IF parent_paper_id # NoPaper /\ found # {}
                          THEN Max(found) + 1 ELSE 1]
    /\ UNCHANGED << program, args, ret, uploads >>

\* upload_paper 304-310: the Version is committed.
upload_paper_commit_version(paper_id) ==
    /\ paper_id \in DOMAIN lineage
    /\ lineage[paper_id].version_number = 0
    /\ lineage[paper_id].local # 0
    /\ lineage' = [lineage EXCEPT ![paper_id].version_number = lineage[paper_id].local]
    /\ UNCHANGED << program, args, ret, uploads >>

InitLineage ==
    /\ Constructed
    /\ args = NoArgs
    /\ ret = NoReturn
    /\ lineage = << >>
    /\ uploads = << >>

NextLineage ==
    \/ \E parent_paper_id \in 0..MaxPapers : upload_paper_commit_paper(parent_paper_id)
    \/ \E paper_id \in 1..MaxPapers : upload_paper_version_number(paper_id)
    \/ \E paper_id \in 1..MaxPapers : upload_paper_commit_version(paper_id)

SpecLineage == InitLineage /\ [][NextLineage]_vars

\* ================================================================ claims
Terminal == {"COMPLETED", "ERROR"}
NonTerminal == {"PENDING", "PARSING", "RAG", "LLM"}

\* process_task has returned from a call for an existing task.
Returned == pc = "idle" /\ cur \in DOMAIN tasks

\* C1: when process_task handles an exception, retry_count grows by one;
\* below max_retries the task goes back to PENDING and its id is pushed onto
\* 'tasks' again, otherwise the status is ERROR with the captured message.
C1_RetryOnException ==
    [][ (pc = "handler" /\ pc' = "pub_ERROR"
           /\ tasks[cur].status \in {"PARSING", "RAG", "LLM"}) =>
          /\ tasks'[cur].retry_count = tasks[cur].retry_count + 1
          /\ IF tasks'[cur].retry_count < max_retries
             THEN tasks'[cur].status = "PENDING" /\ InQueue(cur)'
             ELSE tasks'[cur].status = "ERROR" /\ tasks'[cur].error_message = exc
      ]_vars

\* C2: in every reachable state every task's retry_count is at most
\* max_retries.
C2_RetryCountBounded ==
    \A t \in DOMAIN tasks : tasks[t].retry_count <= max_retries

\* A task has failed in a phase and was handled by the except block.
C2_Witness ==
    \E t \in DOMAIN tasks :
        /\ tasks[t].status = "ERROR"
        /\ tasks[t].error_message = "parser failed"
        /\ tasks[t].retry_count <= max_retries

\* C3: once a task's status is ERROR no step changes it.
C3_ErrorTerminal ==
    [][ \A t \in DOMAIN tasks :
          tasks[t].status = "ERROR" => tasks'[t].status = "ERROR" ]_vars

\* C4: a task's status only advances along PENDING, PARSING, RAG, LLM,
\* COMPLETED, goes back to PENDING for a retry, or goes to ERROR, the last
\* two from a non-terminal status only.
Rank ==
    [ PENDING |-> 0, PARSING |-> 1, RAG |-> 2, LLM |-> 3, COMPLETED |-> 4, ERROR |-> 5 ]

AllowedMove(from, to) ==
    \/ from = to
    \/ from \in NonTerminal /\ to \in NonTerminal \cup {"COMPLETED"} /\ Rank[from] < Rank[to]
    \/ from \in NonTerminal /\ to = "PENDING"
    \/ from \in NonTerminal /\ to = "ERROR"

C4_StatusMonotonic ==
    [][ \A t \in DOMAIN tasks : AllowedMove(tasks[t].status, tasks'[t].status) ]_vars

\* C5: every COMPLETED task has exactly one Feedback row with its
\* (version_id, task_id).
FeedbackRows(t) ==
    { i \in DOMAIN feedbacks[tasks[t].version_id] :
        feedbacks[tasks[t].version_id][i].task_id = t }

C5_ExactlyOneFeedback ==
    \A t \in DOMAIN tasks :
        tasks[t].status = "COMPLETED" => Cardinality(FeedbackRows(t)) = 1

\* C6: when process_task has returned, its task is COMPLETED or ERROR, or a
\* message for it is in the queue.
C6_NoTaskDisappears ==
    Returned => (tasks[cur].status \in Terminal \/ InQueue(cur))

\* C7: when the worker has crashed while working on a task that has no
\* terminal status, a message for that task is in the queue, so that the
\* restarted worker picks it up again.
C7_RedeliveredAfterCrash ==
    (pc = "restarting" /\ cur \in DOMAIN tasks /\ tasks[cur].status \in NonTerminal)
        => InQueue(cur)

\* C8: the chunk rows stored for a file are those of one run of
\* save_chunk_embeddings on its parser chunks, however often the file has
\* been processed.
C8_IdempotentReplace ==
    \A f \in DOMAIN embeddings :
        \/ embeddings[f] = << >>
        \/ embeddings[f] = ChunkRows(f, ChunksToSave(files[f].parser_response), 0)

\* C9: while the parser call is in flight the committed status is PARSING,
\* while embedding generation or similarity search is in flight it is RAG,
\* while the generation call is in flight it is LLM.
C9_StatusNamesPhase ==
    /\ pc = "call_parser" => tasks[cur].status = "PARSING"
    /\ pc \in {"save_chunk_embeddings", "get_rag_context"} => tasks[cur].status = "RAG"
    /\ pc = "call_ollama" => tasks[cur].status = "LLM"

\* The similarity search of a task is in flight.
C9_Witness ==
    pc = "get_rag_context" /\ tasks[cur].status = "RAG"

\* C10: what process_task publishes is what it committed, in that order:
\* nothing is published before its commit, and when process_task has
\* returned every committed status has been published.
IsPrefix(a, b) ==
    Len(a) <= Len(b) /\ \A i \in 1..Len(a) : a[i] = b[i]

C10_EveryTransitionNotified ==
    /\ IsPrefix(run_published, run_committed)
    /\ Returned => run_published = run_committed

\* C12: every task whose status is COMPLETED or ERROR has a completed_at, and
\* every task whose status is PARSING, RAG or LLM has a started_at.
C12_TimestampsSet ==
    \A t \in DOMAIN tasks :
        /\ tasks[t].status \in Terminal => tasks[t].completed_at # NULL
        /\ tasks[t].status \in {"PARSING", "RAG", "LLM"} => tasks[t].started_at # NULL

C14_ParserRetryScenario ==
    [][ (/\ pc = "handler"
         /\ exc = "parser failed"
         /\ tasks[cur].retry_count = 0
         /\ pc' \notin {"handler", "restarting"}) =>
          /\ tasks'[cur].status = "PENDING"
          /\ tasks'[cur].retry_count = 1
          /\ InQueue(cur)'
      ]_vars

\* main takes the message at the head of 'tasks'.
Dequeue == pc = "idle" /\ queue # << >> /\ Len(queue') < Len(queue)

\* C18: a payload that is neither a task message nor an integer is dropped:
\* parse_task_data classifies it as nothing, and the worker's step removes it
\* from 'tasks', does not start process_task, changes no row, pushes nothing
\* and waits for the next message.
C18_MalformedDropped ==
    [][ (Dequeue /\ Head(queue) \in MalformedPayloads) =>
          /\ parse_task_data(Head(queue)) = << NULL, NULL >>
          /\ pc' = "idle"
          /\ db' = db
          /\ queue' = Tail(queue)
      ]_vars

\* The worker has dropped a malformed payload and waits again.
C18_Witness ==
    pc = "idle" /\ data \in MalformedPayloads /\ queue = << >>

\* C19: a bare integer n is classified as a regular task with task_id n and
\* job_type ANALYSIS, the classification of the JSON payload
\* {"task_id": n, "job_type": "ANALYSIS"}, and the worker's step on it starts
\* process_task(n) from the same database.
C19_LegacyEquivalence ==
    [][ (Dequeue /\ Head(queue).fmt = "int") =>
          LET n == Head(queue).task_id
              legacy == parse_task_data(Head(queue))
              json == parse_task_data(AnalysisPayload(n, "ANALYSIS")) IN
            /\ legacy[1] = "REGULAR"
            /\ json[1] = "REGULAR"
            /\ legacy[2].task_id = n /\ legacy[2].job_type = "ANALYSIS"
            /\ json[2].task_id = n /\ json[2].job_type = "ANALYSIS"
            /\ pc' = "load"
            /\ cur' = n
            /\ db' = db
      ]_vars

\* process_task has finished a task that was started by a bare integer.
C19_Witness ==
    /\ Returned
    /\ data = LegacyPayload(cur)
    /\ tasks[cur].status = "COMPLETED"

\* C20: a SYSTEM_DIAGNOSIS message, with a task_id of an existing task or
\* not, is classified as SYSTEM_DIAGNOSIS; the worker's step on it does not
\* start process_task and changes no InferenceTask.
C20_DiagnosisRouting ==
    [][ (Dequeue /\ Head(queue).type = "SYSTEM_DIAGNOSIS") =>
          /\ parse_task_data(Head(queue))[1] = "SYSTEM_DIAGNOSIS"
          /\ pc' = "idle"
          /\ tasks' = tasks
      ]_vars

\* A diagnosis message naming an existing, unfinished task has been handled.
C20_Witness ==
    /\ pc = "idle"
    /\ data.type = "SYSTEM_DIAGNOSIS"
    /\ data.task_id \in DOMAIN tasks
    /\ tasks[data.task_id].status = "PENDING"

\* C11: a publish_notification call leads process_task to the same next
\* statement, with the same database, the same record of commits and no
\* exception, whether the message is delivered or the publish fails; no other
\* step reads what was delivered, so the committed statuses and the stored
\* Feedback of a run do not depend on it, and a failed publish never takes
\* the task to the handler.
C11_NotificationNotDependency ==
    [][ (pc \in DOMAIN AfterPublish /\ pc' # pc) =>
          /\ pc' = AfterPublish[pc]
          /\ exc' = exc
          /\ db' = db
          /\ run_committed' = run_committed
          /\ queue' = queue
      ]_vars

\* A run has completed and stored its Feedback although none of its four
\* notifications was delivered.
C11_Witness ==
    /\ Returned
    /\ tasks[cur].status = "COMPLETED"
    /\ Len(run_published) = 4
    /\ channel = << >>
    /\ Cardinality(FeedbackRows(cur)) = 1

\* C15: when the generation backend's response carries no JSON object (no
\* JSON at all, a fenced block that does not parse, or a JSON value that is
\* no object), call_ollama returns a result object and process_task's next
\* step stores a Feedback whose summary is the response text and whose
\* suggestions hold the parse note, with status COMPLETED; no exception is
\* raised.  (A failing database commit is not the claim's case.)
C15_UnusableResponseDegrades ==
    [][ (/\ pc = "save_feedback"
         /\ response.body.kind \in {"text", "array"}
         /\ pc' # pc
         /\ exc' # "commit failed") =>
          /\ result.is_dict
          /\ pc' = "pub_COMPLETED"
          /\ tasks'[cur].status = "COMPLETED"
          /\ LET rows == feedbacks'[tasks[cur].version_id] IN
               /\ rows # << >>
               /\ rows[Len(rows)].overall_summary = "response_text"
               /\ rows[Len(rows)].suggestions = "parse_note"
      ]_vars

\* C16: in every world the only exceptions of a run come from the parser
\* request, the generation request or the database; and once the contexts
\* are gathered each of them is present exactly when its own source is:
\* the conference context when the task names a rule, the prior feedback
\* when the parent's latest version has a Feedback, the diff when the
\* parent's file yields a text that differs from the paper's, the related
\* chunks and rules when other files and rules are stored.
Gathered == pc \in {"llm", "pub_LLM", "call_ollama", "save_feedback", "pub_COMPLETED"}

C17_FirstSubmissionFeedback ==
    \A t \in DOMAIN tasks :
        (/\ tasks[t].status = "COMPLETED"
         /\ ~world.parent.paper
         /\ world.conference_rule_id = NULL) =>
          \A i \in FeedbackRows(t) :
              LET row == feedbacks[tasks[t].version_id][i] IN
                /\ {"typos", "suggestions"} \subseteq row.comments
                /\ ImprovementsKey \notin row.comments
                /\ row.rag_stats.diff_length = 0

\* C21: a message with job_type REFERENCE_ONLY is classified as
\* REFERENCE_ONLY; the worker's step on it removes it from 'tasks', does not
\* start process_task and leaves every task's status and timestamps, the
\* stored chunks and the Feedback rows unchanged.
C21_ReferenceOnlyDropped ==
    [][ (Dequeue /\ Head(queue).job_type = "REFERENCE_ONLY") =>
          /\ parse_task_data(Head(queue))[1] = "REFERENCE_ONLY"
          /\ pc' = "idle"
          /\ queue' = Tail(queue)
          /\ << tasks, embeddings, feedbacks, papers >>' =
                 << tasks, embeddings, feedbacks, papers >>
      ]_vars

\* A REFERENCE_ONLY message naming an existing, unprocessed task has been
\* dropped.
C21_Witness ==
    /\ pc = "idle"
    /\ data.job_type = "REFERENCE_ONLY"
    /\ data.task_id \in DOMAIN tasks
    /\ tasks[data.task_id].status = "PENDING"
    /\ tasks[data.task_id].started_at = NULL

\* The states in which process_task is waiting for an external service: the
\* parser for the task's own file, the embedding backend for the chunks and for
\* the two search queries (not contacted in mock mode), the parser for the
\* parent's cached file, and the generation backend (not contacted in mock
\* mode).
ExternalCallInFlight ==
    \/ pc = "call_parser"
    \/ pc \in {"save_chunk_embeddings", "get_rag_context"} /\ ~world.mock_mode
    \/ pc = "get_rag_context" /\ world.parent.file = "cached"
    \/ pc = "call_ollama" /\ ~world.mock_mode

\* C22: while a call to the parser, the embedding backend or the generation
\* backend is in flight, the session of process_task has no transaction open:
\* everything before the call was committed and no SQL has run since.
C22_NoTransactionDuringExternalCall ==
    ExternalCallInFlight => session = "clean"

\* C23: whenever the worker is at its dequeue (BLPOP on 'tasks'), no task has
\* status PARSING, RAG or LLM.
C23_NoTaskInProgressAtDequeue ==
    pc = "idle" => \A t \in DOMAIN tasks : tasks[t].status \notin {"PARSING", "RAG", "LLM"}

\* The lines of a returned prompt.
Lines(prompt) == { prompt[i] : i \in DOMAIN prompt }

\* C24: the returned prompt has no conference-rules heading without a
\* conference context, no prior-feedback heading without prior feedback, no
\* diff heading with an empty diff, and neither RAG heading (guidelines,
\* chunks) when no hit of that search is above the block's threshold.
C24_OptionalBlocksOmitted ==
    ret.done =>
      LET prompt == Lines(ret.value)
          rc == args.rag_context
      IN  /\ args.conference_context = {} => "## conference rules" \notin prompt
          /\ args.previous_feedback = {} => "## previous feedback" \notin prompt
          /\ args.diff_text = "" => "## diff" \notin prompt
          /\ (\A i \in DOMAIN rc.related_chunks :
                  rc.related_chunks[i].similarity <= chunk_similarity_threshold)
                => "## related chunks" \notin prompt
          /\ (\A i \in DOMAIN rc.related_rules :
                  rc.related_rules[i].similarity <= rule_similarity_threshold)
                => "## related guidelines" \notin prompt

\* C25: the prompt asks for improvements_from_previous, as item 4 of the
\* analysis request and as a field of the JSON schema, exactly when the
\* prior-feedback context is non-empty, and then the prior-feedback block is
\* in the prompt too.
C25_ImprovementsRequestedIffPriorFeedback ==
    ret.done =>
      LET prompt == Lines(ret.value)
      IN  /\ "improvements_from_previous" \in prompt <=> args.previous_feedback # {}
          /\ "4. improvements_from_previous" \in prompt <=> args.previous_feedback # {}
          /\ "improvements_from_previous" \in prompt => "## previous feedback" \in prompt

C25_Witness ==
    /\ ret.done
    /\ args.previous_feedback # {}
    /\ "improvements_from_previous" \in Lines(ret.value)
    /\ "## previous feedback" \in Lines(ret.value)

\* C26: generate_diff_summary returns "" when the old and the new text are
\* the same and when either of them is empty.
C26_DiffEmptyOnEqualOrEmpty ==
    (/\ ret.done
     /\ args.old_text = args.new_text \/ args.old_text = "" \/ args.new_text = "")
      => ret.value = ""

C26_Witness ==
    /\ ret.done
    /\ args.old_text = "" /\ args.new_text # ""
    /\ ret.value = ""

\* generate_diff_summary has returned "" for two equal non-empty texts.
C26_WitnessEqual ==
    /\ ret.done
    /\ args.old_text # "" /\ args.old_text = args.new_text
    /\ ret.value = ""

\* The diff before it is cut: generate_diff_summary's result without a cap.
rendered_diff == generate_diff_summary(args.old_text, args.new_text, default_max_length)

\* C27: the result of generate_diff_summary is at most max_length plus the
\* length of the truncation marker long, and when the diff was longer than
\* max_length the result ends with the marker.
C27_DiffLengthCapped ==
    ret.done =>
      /\ Len(ret.value) <= args.max_length + Len(truncation_marker)
      /\ (Len(rendered_diff) > args.max_length) =>
            (/\ Len(ret.value) >= Len(truncation_marker)
             /\ SubSeq(ret.value, Len(ret.value) - Len(truncation_marker) + 1,
                       Len(ret.value)) = truncation_marker)

C27_Witness ==
    /\ ret.done
    /\ args.max_length > 0
    /\ Len(rendered_diff) > args.max_length
    /\ Len(ret.value) = args.max_length + Len(truncation_marker)

\* C28: in mock mode and for every outcome of the backend request (a vector
\* of any length, an answer without the embedding field, an error) the vector
\* generate_embedding returns has exactly embedding_dim elements.
C28_VectorsFixedLength ==
    ret.done => ret.value.len = embedding_dim

C30_PaperStatusMirrorsTask ==
    [][ \A t \in DOMAIN tasks' :
          (/\ tasks'[t].status \in Terminal
           /\ t \in DOMAIN tasks => tasks[t].status # tasks'[t].status)
            => papers'[tasks'[t].version_id].status = tasks'[t].status
      ]_vars

\* What the three strategies yield on a response_text: the first ```json
\* fence, the first fence of any kind, the first text in balanced braces
\* (fenced or not); each parses when it holds a JSON object.
FirstJsonFenceParses(text) ==
    LET S == Positions(text, {"json_fence"})
    IN  S # {} /\ text[Min(S)].body = "object"
FirstFenceParses(text) ==
    LET S == Positions(text, {"json_fence", "fence"})
    IN  S # {} /\ text[Min(S)].body = "object"
FirstBracesParse(text) ==
    LET S == { i \in DOMAIN text : text[i].body \in {"object", "braced_garbage"} }
    IN  S # {} /\ text[Min(S)].body = "object"

\* C31: call_ollama returns the fallback result only when none of the three
\* strategies (json fence, any fence, first balanced braces) yields text that
\* parses; when one of them does, the result comes from json.loads.
C31_StrategiesFallThrough ==
    ret.done =>
      (ret.value.from = "except" <=>
          ~(FirstJsonFenceParses(args) \/ FirstFenceParses(args) \/ FirstBracesParse(args)))

\* C32: the rows one save_chunk_embeddings call stores for a File without
\* stored chunks have pairwise distinct chunk_index values, whenever the
\* chunk_index values the parser supplied are distinct.
C32_ChunkIndexDistinct ==
    ret.done =>
      \A i, j \in DOMAIN ret.value :
          i # j => ret.value[i].chunk_index # ret.value[j].chunk_index

\* The root of a paper's lineage: the paper reached by following
\* parent_paper_id (uploads only link to existing papers, so this ends).
RECURSIVE Root(_, _)
Root(graph, p) ==
    IF graph[p].parent_paper_id = NoPaper THEN p
    ELSE Root(graph, graph[p].parent_paper_id)

\* C33: no two committed Versions of one lineage share a version_number, and
\* a Version committed later has a greater number than every Version that
\* was in the lineage before.
C33_VersionNumbersIncrease ==
    \A p, q \in DOMAIN lineage :
        (/\ p # q
         /\ lineage[p].version_number > 0
         /\ lineage[q].version_number > 0
         /\ Root(lineage, p) = Root(lineage, q))
          => lineage[p].version_number # lineage[q].version_number

\* C34: a reference upload has its task and its paper COMPLETED, no message
\* for it is in 'tasks' and the worker never runs process_task on it; any
\* other upload has committed its task as PENDING and its paper as
\* PROCESSING when it comes to the push.
C34_ReferenceUploadSkipsQueue ==
    \A t \in DOMAIN uploads :
        /\ uploads[t].is_reference =>
              /\ tasks[t].status = "COMPLETED"
              /\ papers[tasks[t].version_id].status = "COMPLETED"
              /\ ~InQueue(t)
              /\ cur # t
        /\ (~uploads[t].is_reference /\ uploads[t].stage = "committed") =>
              /\ tasks[t].status = "PENDING"
              /\ papers[tasks[t].version_id].status = "PROCESSING"

C34_Witness ==
    \E t \in DOMAIN uploads :
        /\ uploads[t].is_reference
        /\ uploads[t].stage = "returned"
        /\ tasks[t].status = "COMPLETED"
        /\ queue = << >>

\* C35: every message in 'tasks' names a committed task, and process_task
\* always finds the task it was started for.
C35_TaskCommittedBeforePush ==
    /\ \A i \in DOMAIN queue : queue[i].task_id \in DOMAIN tasks
    /\ pc = "load" => cur \in DOMAIN tasks

\* process_task has been started for one upload's task while another upload
\* is between its commit and its push.
C35_Witness ==
    /\ pc = "load"
    /\ cur \in DOMAIN uploads
    /\ uploads[cur].stage = "returned"
    /\ tasks[cur].status = "PENDING"
    /\ \E t \in DOMAIN uploads : t # cur /\ uploads[t].stage = "committed"

\* C36: after a non-reference upload has answered with success, its task is
\* not PENDING without a message for it in 'tasks' or the worker running it.
C36_SuccessMeansEnqueued ==
    \A t \in DOMAIN uploads :
        (/\ uploads[t].stage = "returned"
         /\ ~uploads[t].is_reference
         /\ tasks[t].status = "PENDING")
          => \/ InQueue(t)
             \/ cur = t /\ pc # "idle"

\* C37: the Feedback rows change only in a step that appends one row for the
\* running task and commits COMPLETED for the task and its paper; every
\* other step, the rollback and the ERROR commit of the except block
\* included, leaves them as they are, and no run commits ERROR after it has
\* committed COMPLETED.
C37_FeedbackOnlyWithCompleted ==
    /\ [][ (\E v \in DOMAIN feedbacks' :
                 feedbacks'[v] # IF v \in DOMAIN feedbacks THEN feedbacks[v] ELSE << >>) =>
              /\ pc = "save_feedback"
              /\ cur \in DOMAIN tasks
              /\ Len(feedbacks'[tasks[cur].version_id]) =
                     Len(feedbacks[tasks[cur].version_id]) + 1
              /\ \A v \in DOMAIN feedbacks \ {tasks[cur].version_id} :
                     feedbacks'[v] = feedbacks[v]
              /\ tasks'[cur].status = "COMPLETED"
              /\ papers'[tasks[cur].version_id].status = "COMPLETED"
         ]_vars
    /\ [](\A i, j \in DOMAIN run_committed :
            (i < j /\ run_committed[i][2] = "COMPLETED") => run_committed[j][2] # "ERROR")

\* The commit of Feedback and COMPLETED has failed and the run is in its
\* except block: no Feedback row is stored.
C37_Witness ==
    /\ pc = "handler"
    /\ exc = "commit failed"
    /\ result.is_dict
    /\ cur \in DOMAIN tasks
    /\ feedbacks[tasks[cur].version_id] = << >>

\* C38: the loop of main is never stopped by a message. Whatever is raised
\* while a dequeued message is handled, the worker comes back to the dequeue,
\* and every message in the queue is eventually dequeued, also after an
\* earlier task ended in ERROR.
C38_LoopNeverStopped ==
    /\ (pc # "idle") ~> (pc = "idle")
    /\ (queue # << >>) ~> (queue = << >>)

\* A message waits in the queue while the worker records the ERROR of the
\* task it is handling.
C38_Witness ==
    /\ pc = "pub_ERROR"
    /\ cur \in DOMAIN tasks
    /\ tasks[cur].status = "ERROR"
    /\ queue # << >>

\* C39: with one worker, messages are handled in the order they were
\* enqueued.  Every change of the 'tasks' list either appends one message at
\* its tail or removes its head, and the message removed is the one the
\* worker starts to handle; so a message pushed earlier is handled earlier.
C39_HandledInPushOrder ==
    [][ queue' # queue =>
          \/ /\ Len(queue') = Len(queue) + 1
             /\ SubSeq(queue', 1, Len(queue)) = queue
          \/ /\ queue # << >>
             /\ queue' = Tail(queue)
             /\ data' = Head(queue)
             /\ pc = "idle"
      ]_vars

\* The second upload pushed its message first: the worker has started on it
\* while the message of the first upload waits.
C39_Witness ==
    /\ pc = "load"
    /\ cur = 2
    /\ data.task_id = 2
    /\ Len(queue) = 1
    /\ Head(queue).task_id = 1

\* The papers that are the root or have an ancestor chain of
\* parent_paper_id links leading to it.
RECURSIVE Descendants(_, _)
Descendants(graph, S) ==
    LET T == S \cup { c \in DOMAIN graph : graph[c] \in S }
    IN  IF T = S THEN S ELSE Descendants(graph, T)

NoDuplicates(s) == \A i, j \in DOMAIN s : s[i] = s[j] => i = j

\* C40: the lineage traversals terminate on every paper graph, cycles
\* included.  Both return; neither adds a paper to visited twice; and
\* find_all_descendant_papers returns every paper reachable from the root
\* exactly once.
C40_TraversalsTerminate ==
    /\ <>(ret.done)
    /\ [](NoDuplicates(ret.trace))
    /\ []((ret.done /\ args.fn = "find_all_descendant_papers") =>
            /\ NoDuplicates(ret.value)
            /\ { ret.value[i] : i \in DOMAIN ret.value } =
                   Descendants(args.graph, {args.paper} \cap DOMAIN args.graph))

\* find_root_paper has returned from a climb that started on a cycle.
C40_Witness ==
    /\ ret.done
    /\ args.fn = "find_root_paper"
    /\ args.graph[1] = 2
    /\ args.graph[2] = 1
    /\ args.paper = 1
    /\ ret.trace = << 1, 2 >>

====
